---- MODULE Spec2Model ----
(***************************************************************************)
(* A state-machine model of inspire-tree: the TreeNode / TreeNodes state   *)
(* model (selection, indeterminate, visibility, insertion, removal) and    *)
(* the InspireDOM batch / render gate.                                     *)
(*                                                                         *)
(* Every operation of the code is an operator from a program state (a      *)
(* record holding the node graph, the per-node itree bookkeeping and the   *)
(* fields of InspireDOM) to the program state it leaves behind, so that    *)
(* a method calling other methods is the composition of their operators,   *)
(* in the order of the code.  An action applies one public call to the     *)
(* current state.                                                          *)
(***************************************************************************)
EXTENDS Integers, Sequences, FiniteSets, TLC

(* ------------------------------ bounds -------------------------------- *)
\* Node objects that may exist at one time (identities 1..MaxNodes).
MaxNodes == 4
\* batch() is not called from outside with the counter at MaxBatch.
MaxBatch == 2
\* end() is not called from outside with the counter at -MaxUnder.
MaxUnder == 1
\* User callbacks run in render passes nested at most this deep.
MaxDepth == 1
\* Nodes of the trees the render pipeline is followed on.
MaxDomNodes == 2
\* Nodes of the trees that nodes are added to and removed from.
MaxTreeNodes == 3
\* Length of the chains visibility is followed on.
MaxVisNodes == 3
\* Calls of the data loader in one run.
MaxLoads == 1
\* Nodes of the tree a dynamic tree is constructed with.
MaxLoadNodes == 1
\* Calls of the data loader in one run, where a load is requested again.
MaxReloads == 2

Nodes == 1..MaxNodes
\* itree.parent of a root-level node (undefined in the code).
NoNode == 0
\* The id of a node object that does not exist, or of a raw object without id.
NoId == 0

\* node.text of a node object that does not exist.
NoText == ""

\* The state flags of itree.state the model follows.
Flags ==
    {"selected", "indeterminate", "collapsed", "hidden", "removed", "loading",
     "focused", "editing"}

(* ----------------------------- variables ------------------------------ *)
VARIABLES
    model,      \* tree.model: the root TreeNodes collection, a sequence of nodes
    children,   \* node.children: the node's TreeNodes collection (<<>>: none)
    itree,      \* node.itree: [state, dirty, parent] of every node
    id,         \* node.id (NoId: the node object does not exist)
    text,       \* node.text
    unloaded,   \* the nodes whose children is the sentinel true
    loads,      \* the calls of the data loader so far (see Load)
    config,     \* tree.config: selection policy flags and showCheckboxes
    batching,   \* InspireDOM.batching
    rendering,  \* InspireDOM.rendering
    cache,      \* InspireDOM.ol: the inputs of the render cache nodes of the
                \* last visual tree (see NoCache)
    obs,        \* what the last call did to the render pipeline (see NoObs)
    op,         \* the last call: [name, node]
    copy,       \* the tree a clone() has made a clone in (see NoCopy)
    deep,       \* the promise of a call of expandDeep() (see NoDeep)
    seq         \* observer of a batch()^N end()^N sequence (see SeqIdle)

vars ==
    <<model, children, itree, id, text, unloaded, loads, config, batching,
      rendering, cache, obs, op, copy, deep, seq>>

(* --------------------------- program state ---------------------------- *)
\* The collections: tree.model (NoNode) and the children of every node.
Contexts == {NoNode} \cup Nodes

\* The input record of the cache node of a list item, { dirty, text }, and of
\* an ordered list, { nodes, nodeCount }, as the last visual tree holds them;
\* built is false where the last visual tree has no such cache node. The
\* nodes of a list are the collection object itself, which is the same in
\* both records of a comparison, so the count stands for it.
NoLi == [built |-> FALSE, dirty |-> FALSE, text |-> NoText]

NoOl == [built |-> FALSE, nodeCount |-> 0]

\* Nothing has been rendered.
NoCache == [li |-> [n \in Nodes |-> NoLi], ol |-> [c \in Contexts |-> NoOl]]

\* No node has been cloned. A clone is a node of a deep copy of the tree:
\*   node       the clone (NoNode: none)
\*   model      the root collection of the copy of the tree
\*   batching, rendering, ol
\*              the fields of the copy of the InspireDOM; ol is the cache node
\*              of its root list
\*   orphans    the nodes of the copy whose children collection has no _context
NoCopy == [node |-> NoNode, model |-> <<>>, batching |-> 0, rendering |-> FALSE,
           ol |-> NoOl, orphans |-> {}]

\* expandDeep() has not been called. The promise of a call:
\*   called     the call has been made
\*   waitCount  the counter of the call
\*   resolved   resolve(nodes) has been called
\*   waits      the calls of the loader whose expand() the call waits for
\*   later      the then-callbacks of the call that are queued and will call
\*              done()
NoDeep == [called |-> FALSE, waitCount |-> 0, resolved |-> FALSE, waits |-> {},
           later |-> 0]

\* No user callback runs during a render pass.
NoCallback == [kind |-> "none", node |-> NoNode]

\* What a call made from inside a render pass did.
NoNested == [name |-> "none", atZero |-> FALSE, changed |-> FALSE, started |-> 0]

\* The observations of one call:
\*   started     render passes the call itself started
\*   suppressed  render requests dropped by the guard of renderNodes
\*   peak        the largest number of render passes in progress at once
\*   hot         render passes started while batching > 0
\*   late        state writes the call itself made after a pass it started
\*   wrote       the call itself wrote a state flag of a node
\*   emitted     the call itself emitted an event of the tree
\*   nested      the call a user callback made from inside a render pass
NoObs == [started |-> 0, suppressed |-> 0, peak |-> 0, hot |-> 0, late |-> 0,
          wrote |-> FALSE, emitted |-> FALSE, nested |-> NoNested]

\* The observer of a sequence batch()^n end()^n of outside calls:
\*   phase   "idle", "open" (batch calls), "close" (end calls), "done", "void"
\*   n, ends the batch() and end() calls of the sequence so far
\*   renders render passes started since the first batch()
\*   clean   no render pass was in progress at the first batch()
\*   atEnd   the last end() of the sequence started a render pass
SeqIdle == [phase |-> "idle", n |-> 0, ends |-> 0, renders |-> 0,
            clean |-> TRUE, atEnd |-> FALSE]

\* The program state a call starts from, with the user callback cb that runs
\* while a render pass builds nodes.  require is the live value of
\* config.selection.require, which select() rewrites while it runs; active
\* counts the render passes in progress and depth the callbacks in progress;
\* ret is the node the last insertion returned.
Cur(cb) ==
    [model |-> model, children |-> children, itree |-> itree,
     id |-> id, text |-> text, ret |-> NoNode,
     unloaded |-> unloaded, loads |-> loads,
     batching |-> batching, rendering |-> rendering, cache |-> cache,
     deep |-> deep, require |-> config.require,
     seq |-> seq, cb |-> cb, active |-> 0, depth |-> 0,
     started |-> 0, suppressed |-> 0, peak |-> 0, hot |-> 0, late |-> 0,
     wrote |-> FALSE, emitted |-> FALSE, nested |-> NoNested]

(* ------------------------------ TreeNode ------------------------------ *)
hasChildren(s, n) == Len(s.children[n]) > 0

hasParent(s, n) == s.itree[n].parent # NoNode

getParent(s, n) == s.itree[n].parent

\* A faulty variant: a markDirty that flips the flag of a dirty node.
markDirtyToggling(s, n) ==
    IF s.itree[n].dirty
    THEN [s EXCEPT !.itree[n].dirty = FALSE]
    ELSE [s EXCEPT !.itree = [k \in Nodes |->
             IF k = n \/ k \in {s.itree[n].parent} THEN [@[k] EXCEPT !.dirty = TRUE]
             ELSE @[k]]]

RECURSIVE markDirty(_, _)
markDirty(s, n) ==
    IF s.itree[n].dirty
    THEN s
    ELSE LET t == [s EXCEPT !.itree[n].dirty = TRUE]
         IN  IF hasParent(t, n) THEN markDirty(t, getParent(t, n)) ELSE t

\* tree.emit(event, ...): the call has notified the listeners of the tree.
emit(s) == [s EXCEPT !.emitted = @ \/ s.depth = 0]

\* node.state(name, newVal): the setter form.
state(s, n, name, newVal) ==
    IF s.itree[n].state[name] # newVal
    THEN emit(markDirty([s EXCEPT !.itree[n].state[name] = newVal,
                                  !.late = IF s.started > 0 /\ s.depth = 0
                                           THEN @ + 1 ELSE @,
                                  !.wrote = @ \/ s.depth = 0], n))
    ELSE s

selected(s, n) == s.itree[n].state["selected"]
indeterminate(s, n) == s.itree[n].state["indeterminate"]
collapsed(s, n) == s.itree[n].state["collapsed"]
hidden(s, n) == s.itree[n].state["hidden"]
removed(s, n) == s.itree[n].state["removed"]

(* ----------------------------- InspireDOM ----------------------------- *)
RECURSIVE renderNodes(_)

batch(s) ==
    LET b == IF s.batching < 0 THEN 0 ELSE s.batching
    IN  [s EXCEPT !.batching = b + 1]

\* A faulty variant: an applyChanges that ignores the batching counter.
applyChangesUnbatched(s) == renderNodes(s)

applyChanges(s) ==
    IF s.batching > 0 THEN s ELSE renderNodes(s)

\* A faulty variant: an end() whose test for the last end() is off by one.
endEarly(s) ==
    LET t == [s EXCEPT !.batching = @ - 1]
    IN  IF t.batching <= 1 THEN renderNodes(t) ELSE t

end(s) ==
    LET t == [s EXCEPT !.batching = @ - 1]
    IN  IF t.batching = 0 THEN applyChanges(t) ELSE t

(* ----------------------------- traversal ------------------------------ *)
\* lib/recurse-down over a collection: the nodes in the order the iteratee
\* sees them (each node, then its children collection, depth first).
RECURSIVE recurseDown(_, _)
recurseDown(s, nodes) ==
    IF nodes = <<>>
    THEN <<>>
    ELSE <<Head(nodes)>> \o recurseDown(s, s.children[Head(nodes)])
                         \o recurseDown(s, Tail(nodes))

Range(q) == {q[i] : i \in 1..Len(q)}

\* The nodes of the tree: what a walk down from tree.model reaches.
InTree(s) == Range(recurseDown(s, s.model))

\* tree.selected(): the flat state query, which never includes removed nodes.
treeSelected(s) == {n \in InTree(s) : selected(s, n) /\ ~removed(s, n)}

\* node.selectable(): config.selection.allow(node) / the selectable flag.
selectable(s, n) == n \in config.allow

\* tree.canAutoDeselect()
canAutoDeselect(s) == config.autoDeselect

(* ------------------------- state change base -------------------------- *)
\* tree.baseStateChange(prop, value, verb, node) without its deep argument.
baseStateChange(s, prop, value, n) ==
    IF s.itree[n].state[prop] # value
    THEN applyChanges(markDirty(state(s, n, prop, value), n))
    ELSE s

(* -------------------- refreshIndeterminateState ----------------------- *)
\* The children of n that are selected, and those that are indeterminate.
selectedCount(s, n) ==
    Cardinality({i \in 1..Len(s.children[n]) : selected(s, s.children[n][i])})

indeterminateCount(s, n) ==
    Cardinality({i \in 1..Len(s.children[n]) : indeterminate(s, s.children[n][i])})

\* "Set indeterminate if any children are, or some children are selected",
\* for a node that is not selected; sel and ind are the counts above.
setIndeterminate(s, n, childrenCount, sel, ind) ==
    IF ~selected(s, n)
    THEN state(s, n, "indeterminate",
               ind > 0 \/ (childrenCount > 0 /\ sel > 0 /\ sel < childrenCount))
    ELSE s

\* "Set selected if all children are", then the indeterminate flag.
refreshFromChildren(s, n) ==
    IF hasChildren(s, n)
    THEN setIndeterminate(
             state(s, n, "selected", selectedCount(s, n) = Len(s.children[n])),
             n, Len(s.children[n]), selectedCount(s, n), indeterminateCount(s, n))
    ELSE s

markIfChanged(s, n, oldValue) ==
    IF oldValue # indeterminate(s, n) THEN markDirty(s, n) ELSE s

\* A faulty variant: a refresh that stops at the node and leaves its ancestors.
refreshIndeterminateStateLocal(s, n) ==
    IF ~config.showCheckboxes
    THEN state(s, n, "indeterminate", FALSE)
    ELSE markIfChanged(
             refreshFromChildren(state(s, n, "indeterminate", FALSE), n),
             n, indeterminate(s, n))

RECURSIVE refreshIndeterminateState(_, _)

\* if (node.hasParent()) node.getParent().refreshIndeterminateState()
refreshParent(s, n) ==
    IF hasParent(s, n)
    THEN refreshIndeterminateState(s, getParent(s, n))
    ELSE s

refreshIndeterminateState(s, n) ==
    IF ~config.showCheckboxes
    THEN state(s, n, "indeterminate", FALSE)
    ELSE markIfChanged(
             refreshParent(
                 refreshFromChildren(state(s, n, "indeterminate", FALSE), n), n),
             n, indeterminate(s, n))

(* ------------------------------ deselect ------------------------------ *)
RECURSIVE deselect(_, _, _)
RECURSIVE deselectEach(_, _, _)

\* nodes.each(function(child) { child.deselect(skip) })
deselectEach(s, nodes, skip) ==
    IF nodes = <<>>
    THEN s
    ELSE deselectEach(deselect(s, Head(nodes), skip), Tail(nodes), skip)

\* "Deselect all children"
deselectChildren(s, n) ==
    IF hasChildren(s, n) THEN deselectEach(s, s.children[n], TRUE) ELSE s

\* "Set indeterminate state for parent" or "Deselect parent node"
deselectParent(s, n, skipParentIndeterminate) ==
    IF hasParent(s, n)
    THEN IF config.showCheckboxes /\ ~skipParentIndeterminate
         THEN refreshIndeterminateState(s, getParent(s, n))
         ELSE baseStateChange(s, "selected", FALSE, getParent(s, n))
    ELSE s

\* "If children were auto-selected"
deselectCascade(s, n, skipParentIndeterminate) ==
    IF config.autoSelectChildren
    THEN deselectParent(deselectChildren(s, n), n, skipParentIndeterminate)
    ELSE s

\* A faulty variant: a deselect() that does not look at selection.require.
deselectUnrequired(s, n, skipParentIndeterminate) ==
    IF selected(s, n)
    THEN end(deselectCascade(
                 baseStateChange(state(batch(s), n, "indeterminate", FALSE),
                                 "selected", FALSE, n),
                 n, skipParentIndeterminate))
    ELSE s

deselect(s, n, skipParentIndeterminate) ==
    IF selected(s, n) /\ (~s.require \/ Cardinality(treeSelected(s)) > 1)
    THEN end(deselectCascade(
                 baseStateChange(state(batch(s), n, "indeterminate", FALSE),
                                 "selected", FALSE, n),
                 n, skipParentIndeterminate))
    ELSE s

\* tree.deselectDeep(): baseInvoke of deselect on every node of the model,
\* walking down, inside one batch.
deselectDeep(s) ==
    end(deselectEach(batch(s), recurseDown(s, s.model), FALSE))

(* ------------------------------- select ------------------------------- *)
RECURSIVE selectEach(_, _)
\* node.children.recurseDown(child => baseStateChange('selected', true, ..))
selectEach(s, nodes) ==
    IF nodes = <<>>
    THEN s
    ELSE selectEach(baseStateChange(s, "selected", TRUE, Head(nodes)), Tail(nodes))

\* config.selection.require = oldVal
restoreRequire(s, oldVal) == [s EXCEPT !.require = oldVal]

\* if (canAutoDeselect()) { require = false; deselectDeep(); require = oldVal }
autoDeselect(s) ==
    IF canAutoDeselect(s)
    THEN restoreRequire(deselectDeep([s EXCEPT !.require = FALSE]), s.require)
    ELSE s

selectChildren(s, n) ==
    IF hasChildren(s, n)
    THEN selectEach(s, recurseDown(s, s.children[n]))
    ELSE s

selectParent(s, n) ==
    IF config.showCheckboxes /\ hasParent(s, n)
    THEN refreshIndeterminateState(s, getParent(s, n))
    ELSE s

\* A faulty variant: a cascade that leaves the parent of the node as it was.
selectCascadeNoParent(s, n) ==
    IF config.autoSelectChildren THEN selectChildren(s, n) ELSE s

\* if (config.selection.autoSelectChildren) { ... }
selectCascade(s, n) ==
    IF config.autoSelectChildren
    THEN selectParent(selectChildren(s, n), n)
    ELSE s

\* A faulty variant: a select() that does not open a batch around its writes.
selectUnbatched(s, n) ==
    IF ~selected(s, n) /\ selectable(s, n)
    THEN applyChanges(markDirty(
             emit(selectCascade(
                      baseStateChange(autoDeselect(s), "selected", TRUE, n), n)),
             n))
    ELSE s

\* A faulty variant: a select() that does not ask whether the node is
\* selectable.
selectUnallowed(s, n) ==
    IF ~selected(s, n)
    THEN end(markDirty(
             emit(selectCascade(
                      state(autoDeselect(batch(s)), n, "selected", TRUE), n)),
             n))
    ELSE s

select(s, n) ==
    IF ~selected(s, n) /\ selectable(s, n)
    THEN end(markDirty(
             emit(selectCascade(
                      state(autoDeselect(batch(s)), n, "selected", TRUE), n)),
             n))
    ELSE s

(* ------------------- hide, show, collapse, expand --------------------- *)
RECURSIVE hide(_, _)
RECURSIVE hideEach(_, _)

hideEach(s, nodes) ==
    IF nodes = <<>> THEN s ELSE hideEach(hide(s, Head(nodes)), Tail(nodes))

\* node.children.hide(): tree.baseInvoke(children, 'hide'), inside a batch.
hideChildren(s, n) ==
    IF hasChildren(s, n) THEN end(hideEach(batch(s), s.children[n])) ELSE s

hide(s, n) == hideChildren(baseStateChange(s, "hidden", TRUE, n), n)

show(s, n) == baseStateChange(s, "hidden", FALSE, n)

collapse(s, n) == baseStateChange(s, "collapsed", TRUE, n)

loading(s, n) == s.itree[n].state["loading"]

\* tree.isDynamic && node.children === true
isUnloaded(s, n) == config.dynamic /\ n \in s.unloaded

\* A call of the data loader, config.data(node, complete, error), and the
\* promise of the loadChildren() that made it:
\*   node     the node of the call
\*   promise  "pending", "resolved" or "rejected"
\*   inflight the loader has not called back yet
\*   by       "expand" if expand() made the call and waits for the promise
\*   error    what the promise is rejected with: "unsupported" (the Error of
\*            loadChildren itself), "loader" (the err of the loader), "none"
\*   loaderrors  the tree.loaderror events emitted for the call
Load(n, promise) ==
    [node |-> n, promise |-> promise, inflight |-> TRUE, by |-> "loadChildren",
     error |-> IF promise = "rejected" THEN "unsupported" ELSE "none",
     loaderrors |-> 0]

\* var loader = node._tree.config.data(node, complete, error), with the
\* promise rejected before it if the node has or supports no dynamic children.
callLoader(s, n, supported) ==
    [s EXCEPT !.loads = Append(@, Load(n, IF supported THEN "pending"
                                                       ELSE "rejected"))]

\* node.loadChildren(), up to the call of the data loader.
loadChildren(s, n) ==
    callLoader(applyChanges(markDirty(state(s, n, "loading", TRUE), n)),
               n, isUnloaded(s, n))

\* node.loadChildren().then(resolve).catch(reject)
awaiting(s) == [s EXCEPT !.loads[Len(s.loads)].by = "expand"]

\* A faulty variant: an expand() that does not load the children.
expandUnloaded(s, n) ==
    IF (hasChildren(s, n) \/ isUnloaded(s, n)) /\ (collapsed(s, n) \/ hidden(s, n))
    THEN applyChanges(markDirty(
             emit(state(state(s, n, "collapsed", FALSE), n, "hidden", FALSE)), n))
    ELSE s

\* node.expand(), up to the call of the data loader if there is one.
expand(s, n) ==
    IF (hasChildren(s, n) \/ isUnloaded(s, n)) /\ (collapsed(s, n) \/ hidden(s, n))
    THEN IF isUnloaded(s, n)
         THEN awaiting(loadChildren(
                  emit(state(state(s, n, "collapsed", FALSE), n, "hidden", FALSE)),
                  n))
         ELSE applyChanges(markDirty(
                  emit(state(state(s, n, "collapsed", FALSE), n, "hidden", FALSE)),
                  n))
    ELSE s

RECURSIVE softRemove(_, _)
RECURSIVE softRemoveEach(_, _)

softRemoveEach(s, nodes) ==
    IF nodes = <<>>
    THEN s
    ELSE softRemoveEach(softRemove(s, Head(nodes)), Tail(nodes))

\* The deep argument of baseStateChange: softRemove invoked on every
\* descendant (tree.baseInvoke, walking down, inside a batch).
softRemoveDeep(s, n) ==
    IF hasChildren(s, n)
    THEN end(softRemoveEach(batch(s), recurseDown(s, s.children[n])))
    ELSE s

\* node.softRemove(): baseStateChange with deep = 'softRemove'.
softRemove(s, n) ==
    IF ~removed(s, n)
    THEN applyChanges(markDirty(softRemoveDeep(state(s, n, "removed", TRUE), n), n))
    ELSE s

restore(s, n) == baseStateChange(s, "removed", FALSE, n)

\* A faulty variant: a visible() that looks at the parent but no further up.
visibleOneLevel(s, n) ==
    IF hidden(s, n) \/ removed(s, n)
    THEN FALSE
    ELSE IF hasParent(s, n)
         THEN IF collapsed(s, getParent(s, n))
              THEN FALSE
              ELSE ~(hidden(s, getParent(s, n)) \/ removed(s, getParent(s, n)))
         ELSE TRUE

RECURSIVE visible(_, _)
visible(s, n) ==
    IF hidden(s, n) \/ removed(s, n)
    THEN FALSE
    ELSE IF hasParent(s, n)
         THEN IF collapsed(s, getParent(s, n))
              THEN FALSE
              ELSE visible(s, getParent(s, n))
         ELSE TRUE

\* node.available()
available(s, n) == ~hidden(s, n) /\ ~removed(s, n)

\* baseStatePredicate(state) without full: the nodes of the tree, flattened,
\* that are not removed and of which the predicate of the state holds.
baseStatePredicate(s, fn(_, _)) ==
    {n \in InTree(s) : ~removed(s, n) /\ fn(s, n)}

\* tree.available() and tree.visible()
treeAvailable(s) == baseStatePredicate(s, available)

treeVisible(s) == baseStatePredicate(s, visible)

(* ------------------------- insertion, removal ------------------------- *)
\* The itree of a node object that is not part of the tree.
FreshItree ==
    [state |-> [f \in Flags |-> FALSE], dirty |-> FALSE, parent |-> NoNode]

InsertSeq(q, index, x) ==
    SubSeq(q, 1, index) \o <<x>> \o SubSeq(q, index + 1, Len(q))

RemoveSeq(q, x) == SelectSeq(q, LAMBDA y : y # x)

\* The node objects a removal detaches: they are no longer part of the tree,
\* and a call of the data loader for one of them is a call for no node of the
\* tree.
Detach(s, gone) ==
    [s EXCEPT !.itree = [k \in Nodes |-> IF k \in gone THEN FreshItree ELSE @[k]],
              !.children = [k \in Nodes |-> IF k \in gone THEN <<>> ELSE @[k]],
              !.id = [k \in Nodes |-> IF k \in gone THEN NoId ELSE @[k]],
              !.text = [k \in Nodes |-> IF k \in gone THEN NoText ELSE @[k]],
              !.unloaded = @ \ gone,
              !.cache = [li |-> [k \in Nodes |-> IF k \in gone THEN NoLi ELSE @.li[k]],
                         ol |-> [k \in Contexts |-> IF k \in gone THEN NoOl ELSE @.ol[k]]],
              !.loads = [i \in DOMAIN @ |->
                            [@[i] EXCEPT !.node = IF @ \in gone THEN NoNode ELSE @]]]

\* The collection whose _context is ctx (NoNode: tree.model).
collection(s, ctx) == IF ctx = NoNode THEN s.model ELSE s.children[ctx]

\* collection.node(id): the first node with the id that a walk down from the
\* collection meets, or none.
node(s, ctx, i) ==
    LET found == SelectSeq(recurseDown(s, collection(s, ctx)),
                           LAMBDA n : s.id[n] = i)
    IN  IF found = <<>> THEN NoNode ELSE Head(found)

\* The order of the texts under config.sort = 'text'.
TextOrder == <<"A", "B", "C">>

Rank(t) == CHOOSE i \in 1..Len(TextOrder) : TextOrder[i] = t

\* The sort keys of the members of a collection, in its order.
keysOf(s, ctx) ==
    [i \in 1..Len(collection(s, ctx)) |-> Rank(s.text[collection(s, ctx)[i]])]

RECURSIVE baseSortedIndexBy(_, _, _, _)
\* The binary search of _.sortedIndexBy over the keys of an array.
baseSortedIndexBy(keys, value, low, high) ==
    IF low < high
    THEN IF keys[((low + high) \div 2) + 1] < value
         THEN baseSortedIndexBy(keys, value, ((low + high) \div 2) + 1, high)
         ELSE baseSortedIndexBy(keys, value, low, (low + high) \div 2)
    ELSE high

\* _.sortedIndexBy(this, object, this._tree.config.sort)
sortedIndexBy(s, ctx, object) ==
    baseSortedIndexBy(keysOf(s, ctx), Rank(object.text), 0,
                      Len(collection(s, ctx)))

\* The node objects that do not exist, and the one a constructor call makes.
Free(s) == {n \in Nodes : s.id[n] = NoId}

newNode(s) == CHOOSE x \in Free(s) : \A y \in Free(s) : x <= y

\* A generated id: it differs from every id a caller supplies.
generatedId(m) == MaxNodes + m

\* return node
returning(s, m) == [s EXCEPT !.ret = m]

\* object.itree.state[flag] of a raw object: a flag it does not give is false.
given(object, flag) == IF flag \in DOMAIN object THEN object[flag] ELSE FALSE

\* The node object m made from a raw object: its id is the object's id, or a
\* generated one if the object has none.
create(s, m, object, parent) ==
    [s EXCEPT !.id[m] = IF object.id = NoId THEN generatedId(m) ELSE object.id,
              !.text[m] = object.text,
              !.children[m] = <<>>,
              !.itree[m] = [FreshItree EXCEPT !.parent = parent,
                                              !.state["selected"] = object.selected,
                                              !.state["focused"] = given(object, "focused"),
                                              !.state["editing"] = given(object, "editing")]]

\* collection.push(node)
push(s, parent, m) == [s EXCEPT !.children[parent] = Append(@, m)]

RECURSIVE objectToModel(_, _, _)
RECURSIVE collectionToModel(_, _, _)

\* tree.collectionToModel(array, parent): each object of the array converted
\* and pushed, in the order of the array.
collectionToModel(s, array, parent) ==
    IF array = <<>>
    THEN s
    ELSE collectionToModel(
             push(objectToModel(s, Head(array), parent), parent, newNode(s)),
             Tail(array), parent)

\* tree.objectToModel(object, parent): the node object for a raw object, its
\* children converted with it.
objectToModel(s, object, parent) ==
    returning(
        collectionToModel(create(s, newNode(s), object, parent),
                          object.kids, newNode(s)),
        newNode(s))

\* this.splice(index, 0, node) on the collection whose _context is ctx, and
\* node.itree.parent = this._context.
splice(s, ctx, index, m) ==
    IF ctx = NoNode
    THEN [s EXCEPT !.model = InsertSeq(@, index, m)]
    ELSE [s EXCEPT !.children[ctx] = InsertSeq(@, index, m),
                   !.itree[m].parent = ctx]

\* this._context.refreshIndeterminateState().markDirty()
refreshContext(s, ctx) ==
    IF ctx # NoNode
    THEN markDirty(refreshIndeterminateState(s, ctx), ctx)
    ELSE s

\* "Node is new, insert at given location."
insertNew(s, ctx, index, object) ==
    returning(
        applyChanges(markDirty(
            emit(refreshContext(
                     splice(objectToModel(s, object, NoNode), ctx, index,
                            newNode(s)),
                     ctx)),
            newNode(s))),
        newNode(s))

RECURSIVE insertAt(_, _, _, _)
RECURSIVE addNode(_, _, _)
RECURSIVE addEach(_, _, _)

\* _.each(object.children, child => existingNode.children.addNode(child))
addEach(s, ctx, array) ==
    IF array = <<>>
    THEN s
    ELSE addEach(addNode(s, ctx, Head(array)), ctx, Tail(array))

\* A faulty variant: a merge that leaves the flags of the existing node.
mergeAsFound(s, existingNode, object) ==
    returning(
        applyChanges(markDirty(
            addEach(s, existingNode, object.kids), existingNode)),
        existingNode)

\* A faulty variant: a merge that replaces the children of the existing node
\* by those of the object.
mergeReplacing(s, existingNode, object) ==
    returning(
        applyChanges(markDirty(
            addEach(Detach([show(restore(s, existingNode), existingNode)
                               EXCEPT !.children[existingNode] = <<>>],
                           Range(recurseDown(s, s.children[existingNode]))),
                    existingNode, object.kids),
            existingNode)),
        existingNode)

\* "Is it already in the tree?": the existing node is restored, shown and
\* given the children of the object, and is the node returned.
merge(s, existingNode, object) ==
    returning(
        applyChanges(markDirty(
            addEach(show(restore(s, existingNode), existingNode),
                    existingNode, object.kids),
            existingNode)),
        existingNode)

\* collection.insertAt(index, object) on the collection whose _context is ctx,
\* for a raw object [id, text, selected, kids].
insertAt(s, ctx, index, object) ==
    IF object.id # NoId /\ node(s, ctx, object.id) # NoNode
    THEN merge(s, node(s, ctx, object.id), object)
    ELSE insertNew(s, ctx, index, object)

\* A faulty variant: an addNode() that does not look at config.sort.
addNodeAtEnd(s, ctx, object) ==
    insertAt(s, ctx, Len(collection(s, ctx)), object)

\* collection.addNode(object)
addNode(s, ctx, object) ==
    insertAt(s, ctx,
             IF config.sort
             THEN sortedIndexBy(s, ctx, object)
             ELSE Len(collection(s, ctx)),
             object)

\* this.children = new TreeNodes(this._tree), where _.isArray(this.children)
\* holds of a TreeNodes collection: the nodes of the old collection are no
\* longer part of the tree.
resetChildren(s, n) ==
    IF config.isArray
    THEN Detach([s EXCEPT !.children[n] = <<>>],
                Range(recurseDown(s, s.children[n])))
    ELSE s

\* node.addChild(child)
addChild(s, n, child) == addNode(resetChildren(s, n), n, child)

\* node.children = <a new collection>: the nodes of the old one are no longer
\* part of the tree.
replaceChildren(s, n) ==
    Detach([s EXCEPT !.children[n] = <<>>, !.unloaded = @ \ {n}],
           Range(recurseDown(s, s.children[n])))

\* resolve(...) / reject(...) of the promise of a call of the loader: a
\* promise is settled once.
settle(s, i, outcome) ==
    [s EXCEPT !.loads[i].inflight = FALSE,
              !.loads[i].promise = IF @ = "pending" THEN outcome ELSE @,
              !.loads[i].error = IF s.loads[i].promise = "pending"
                                    /\ outcome = "rejected"
                                 THEN "loader" ELSE @]

\* node._tree.emit('tree.loaderror', err)
loaderror(s, i) == emit([s EXCEPT !.loads[i].loaderrors = @ + 1])

\* A faulty variant: a complete(results) that drops the results of a load
\* whose node has been collapsed since.
completeUncollapsed(s, i, results) ==
    IF collapsed(s, s.loads[i].node)
    THEN emit(settle(end(batch(s)), i, "resolved"))
    ELSE emit(settle(
             end(markDirty(
                 collectionToModel(
                     replaceChildren(
                         state(batch(s), s.loads[i].node, "loading", FALSE),
                         s.loads[i].node),
                     results, s.loads[i].node),
                 s.loads[i].node)),
             i, "resolved"))

\* The callback complete(results) of the i-th call of the loader, for a
\* node of the tree.
complete(s, i, results) ==
    emit(settle(
        end(markDirty(
            collectionToModel(
                replaceChildren(
                    state(batch(s), s.loads[i].node, "loading", FALSE),
                    s.loads[i].node),
                results, s.loads[i].node),
            s.loads[i].node)),
        i, "resolved"))

\* A faulty variant: an error(err) that leaves node.children as it is.
errorUnloaded(s, i) ==
    loaderror(settle(
        applyChanges(markDirty(state(s, s.loads[i].node, "loading", FALSE),
                               s.loads[i].node)),
        i, "rejected"), i)

\* The callback error(err) of the i-th call of the loader, for a node of the
\* tree.
error(s, i) ==
    loaderror(settle(
        applyChanges(markDirty(
            replaceChildren(state(s, s.loads[i].node, "loading", FALSE),
                            s.loads[i].node),
            s.loads[i].node)),
        i, "rejected"), i)

\* The members of the context collection of n that _.remove takes out: those
\* with the id of n.
removedWith(s, n) ==
    SelectSeq(collection(s, getParent(s, n)), LAMBDA y : s.id[y] = s.id[n])

\* _.remove(context, { id: node.id })
removeFrom(s, parent, n) ==
    IF parent # NoNode
    THEN [s EXCEPT !.children[parent] = SelectSeq(@, LAMBDA y : s.id[y] # s.id[n])]
    ELSE [s EXCEPT !.model = SelectSeq(@, LAMBDA y : s.id[y] # s.id[n])]

\* if (parent) parent.refreshIndeterminateState()
refreshRemoved(s, parent) ==
    IF parent # NoNode THEN refreshIndeterminateState(s, parent) ELSE s

\* A faulty variant: an export without the children.
exportChildless(s, n) == [id |-> s.id[n], text |-> s.text[n], children |-> <<>>]

RECURSIVE export(_, _)
\* node.export(): the node and its descendants as native objects, without
\* itree.
export(s, n) ==
    [id |-> s.id[n], text |-> s.text[n],
     children |-> [i \in 1..Len(s.children[n]) |-> export(s, s.children[n][i])]]

\* var exported = node.export()
exporting(s, n) == [s EXCEPT !.ret = export(s, n)]

\* A faulty variant: a remove() that leaves the parent as it was.
removeUnrefreshed(s, n) ==
    Detach(applyChanges(emit(
               exporting(removeFrom(s, getParent(s, n), n), n))),
           Range(recurseDown(s, removedWith(s, n))))

\* node.remove(), up to this._tree.dom.applyChanges().
removing(s, n) ==
    emit(exporting(
             refreshRemoved(removeFrom(s, getParent(s, n), n), getParent(s, n)),
             n))

remove(s, n) ==
    Detach(applyChanges(removing(s, n)),
           Range(recurseDown(s, removedWith(s, n))))

(* ----------------------- outside batch() / end() ---------------------- *)
Passes(s) == s.started + s.nested.started

\* The observer at a batch() from outside: a sequence starts at batching = 0.
seqBatch(s) ==
    IF s.batching = 0
    THEN [phase |-> "open", n |-> 1, ends |-> 0, renders |-> 0,
          clean |-> ~s.rendering, atEnd |-> FALSE]
    ELSE IF s.seq.phase = "open"
         THEN [s.seq EXCEPT !.n = @ + 1]
         ELSE [s.seq EXCEPT !.phase = "void"]

\* dom.batch() called from outside the tree's own methods.
apiBatch(s) == batch([s EXCEPT !.seq = seqBatch(s)])

\* The observer after an end() from outside; before: the passes started
\* before the call.
seqEnd(s, before) ==
    IF s.seq.phase \in {"open", "close"}
    THEN [s EXCEPT !.seq.ends = @ + 1,
                   !.seq.phase = IF s.seq.ends + 1 = s.seq.n
                                 THEN "done" ELSE "close",
                   !.seq.atEnd = Passes(s) > before]
    ELSE [s EXCEPT !.seq.phase = "idle"]

\* dom.end() called from outside the tree's own methods.
apiEnd(s) == seqEnd(end(s), Passes(s))

(* --------------------------- render passes ---------------------------- *)
\* The observer of a select() made by a callback: s the state it started
\* from, t the state it left.
noteNested(t, s) ==
    [t EXCEPT !.nested = [name |-> "select", atZero |-> s.batching = 0,
                          changed |-> t.itree # s.itree,
                          started |-> t.nested.started]]

enter(s) == [s EXCEPT !.depth = @ + 1]

leave(s) == [s EXCEPT !.depth = @ - 1]

\* What user code does when it is called while a render pass builds a node (a
\* listener of node.state.changed for the rendered flag, or a class callback
\* of the node's attributes).
callback(s) ==
    leave(CASE s.cb.kind = "applyChanges" -> applyChanges(enter(s))
            [] s.cb.kind = "batchEnd" -> apiEnd(apiBatch(enter(s)))
            [] s.cb.kind = "select" ->
                 noteNested(select(enter(s), s.cb.node), enter(s))
            [] OTHER -> enter(s))

\* VStateCompare: the stored input record and the new one are equal field by
\* field.
VStateCompare(previous, current) == previous = current

\* VArrayDirtyCompare: the stored list and the new one have the same count,
\* and no node of the new one is dirty.
VArrayDirtyCompare(previous, current, dirty) == previous = current /\ ~dirty

\* The input record of createListItemNode(node).
liState(s, n) == [built |-> TRUE, dirty |-> s.itree[n].dirty, text |-> s.text[n]]

\* The input record of createOrderedList(nodes, context).
olState(s, ctx) == [built |-> TRUE, nodeCount |-> Len(collection(s, ctx))]

\* _.find(nodes, 'itree.dirty')
anyDirty(s, ctx) == \E m \in Range(collection(s, ctx)) : s.itree[m].dirty

RECURSIVE createOrderedList(_, _)
RECURSIVE createListItemNode(_, _)

\* The nodes whose list item is built when the pass reaches the ordered list
\* of a collection: none if the cache node of the list serves the stored
\* visual value, otherwise those of its list items.
createOrderedList(s, ctx) ==
    IF VArrayDirtyCompare(s.cache.ol[ctx], olState(s, ctx), anyDirty(s, ctx))
    THEN {}
    ELSE UNION {createListItemNode(s, m) : m \in Range(collection(s, ctx))}

\* A faulty variant: a list item whose builder runs in every pass that
\* reaches it.
createListItemNodeUncached(s, n) ==
    {n} \cup (IF hasChildren(s, n) THEN createOrderedList(s, n) ELSE {})

\* The nodes whose list item is built when the pass reaches the list item of
\* a node: none if its cache node serves the stored visual value, otherwise
\* the node and those of the ordered list of its children.
createListItemNode(s, n) ==
    IF VStateCompare(s.cache.li[n], liState(s, n))
    THEN {}
    ELSE {n} \cup (IF hasChildren(s, n) THEN createOrderedList(s, n) ELSE {})

\* The cache nodes of the visual tree of a pass that started in state s and
\* built the list items of `built`.
stored(s, built) ==
    [li |-> [n \in Nodes |-> IF n \in built THEN liState(s, n) ELSE s.cache.li[n]],
     ol |-> [c \in Contexts |->
               IF c = NoNode \/ (c \in built /\ hasChildren(s, c))
               THEN olState(s, c)
               ELSE IF c \in built THEN NoOl ELSE s.cache.ol[c]]]

\* this.rendering = true
beginPass(s) ==
    [s EXCEPT !.rendering = TRUE,
              !.active = @ + 1,
              !.peak = IF s.active + 1 > @ THEN s.active + 1 ELSE @,
              !.started = IF s.depth = 0 THEN @ + 1 ELSE @,
              !.nested.started = IF s.depth > 0 THEN @ + 1 ELSE @,
              !.hot = IF s.batching > 0 THEN @ + 1 ELSE @,
              !.seq.renders = IF s.seq.phase \in {"open", "close"}
                              THEN @ + 1 ELSE @]

\* createOrderedList: user callbacks run while the nodes are built.
buildNodes(s, built) ==
    IF built # {} /\ s.depth < MaxDepth THEN callback(s) ELSE s

\* A built node is clean (node.itree.dirty = false); this.ol = newOl;
\* this.rendering = false.
endPass(s, built, newOl) ==
    [s EXCEPT !.itree = [n \in Nodes |->
                 IF n \in built THEN [@[n] EXCEPT !.dirty = FALSE] ELSE @[n]],
              !.cache = newOl,
              !.rendering = FALSE,
              !.active = @ - 1]

\* The render pass of renderNodes.
renderPass(s) ==
    endPass(buildNodes(beginPass(s), createOrderedList(s, NoNode)),
            createOrderedList(s, NoNode),
            stored(s, createOrderedList(s, NoNode)))

\* A faulty variant: a renderNodes without the reentrancy guard.
renderNodesUnguarded(s) == renderPass(s)

renderNodes(s) ==
    IF s.rendering
    THEN [s EXCEPT !.suppressed = @ + 1]
    ELSE renderPass(s)

(* ------------------------------ actions ------------------------------- *)
\* The program state between two calls.
Now == Cur(NoCallback)

Live == InTree(Cur(NoCallback))

Callbacks ==
    {NoCallback}
      \cup {[kind |-> k, node |-> NoNode] : k \in {"applyChanges", "batchEnd"}}
      \cup {[kind |-> "select", node |-> n] : n \in Live}

CommitWith(s, call) ==
    /\ model' = s.model
    /\ children' = s.children
    /\ itree' = s.itree
    /\ id' = s.id
    /\ text' = s.text
    /\ unloaded' = s.unloaded
    /\ loads' = s.loads
    /\ batching' = s.batching
    /\ rendering' = s.rendering
    /\ cache' = s.cache
    /\ deep' = s.deep
    /\ seq' = s.seq
    /\ obs' = [started |-> s.started, suppressed |-> s.suppressed,
               peak |-> s.peak, hot |-> s.hot, late |-> s.late,
               wrote |-> s.wrote, emitted |-> s.emitted, nested |-> s.nested]
    /\ op' = call
    /\ UNCHANGED <<config, copy>>

Commit(s, name, n) == CommitWith(s, [name |-> name, node |-> n])

Batch ==
    /\ batching < MaxBatch
    /\ Commit(apiBatch(Cur(NoCallback)), "batch", NoNode)

End ==
    /\ batching > -MaxUnder
    /\ Commit(apiEnd(Cur(NoCallback)), "end", NoNode)

\* The calls below of the form XWith are the call X on a tree whose user has
\* registered one of the handlers of Callbacks.
EndWith ==
    /\ batching > -MaxUnder
    /\ \E cb \in Callbacks : Commit(apiEnd(Cur(cb)), "end", NoNode)

ApplyChangesWith ==
    \E cb \in Callbacks : Commit(applyChanges(Cur(cb)), "applyChanges", NoNode)

SelectWith ==
    \E n \in Live, cb \in Callbacks : Commit(select(Cur(cb), n), "select", n)

DeselectWith ==
    \E n \in Live, cb \in Callbacks :
        Commit(deselect(Cur(cb), n, FALSE), "deselect", n)

Select == \E n \in Live : Commit(select(Cur(NoCallback), n), "select", n)

Deselect ==
    \E n \in Live : Commit(deselect(Cur(NoCallback), n, FALSE), "deselect", n)

\* The calls on a node's visibility; of these the observer keeps the name.
Hide == \E n \in Live : Commit(hide(Cur(NoCallback), n), "hide", NoNode)

Show == \E n \in Live : Commit(show(Cur(NoCallback), n), "show", NoNode)

Collapse == \E n \in Live : Commit(collapse(Cur(NoCallback), n), "collapse", NoNode)

Expand == \E n \in Live : Commit(expand(Cur(NoCallback), n), "expand", NoNode)

SoftRemove ==
    \E n \in Live : Commit(softRemove(Cur(NoCallback), n), "softRemove", NoNode)

Restore == \E n \in Live : Commit(restore(Cur(NoCallback), n), "restore", NoNode)

\* A raw object as addNode() takes it.
Object(i, t, sel, kids) == [id |-> i, text |-> t, selected |-> sel, kids |-> kids]

\* tree.addNode(object) / node.children.addNode(object) for an object without
\* an id: op.node is the node returned.
AddNode ==
    /\ Cardinality(Live) < MaxTreeNodes
    /\ \E ctx \in Live \cup {NoNode}, sel \in BOOLEAN :
         Commit(addNode(Cur(NoCallback), ctx, Object(NoId, "A", sel, <<>>)),
                "addNode", newNode(Cur(NoCallback)))

Remove == \E n \in Live : Commit(remove(Cur(NoCallback), n), "remove", n)

\* node.remove() as the observer records it: the node, its parent, the
\* members of its context collection and its export before the call, and the
\* object the call returned.
Removal(s, t, n) ==
    [name |-> "remove", node |-> n, parent |-> getParent(s, n),
     members |-> collection(s, getParent(s, n)),
     subtree |-> export(s, n), exported |-> t.ret]

RemoveNode == \E n \in Live : CommitWith(remove(Now, n), Removal(Now, remove(Now, n), n))

\* The raw objects with an id of ids (NoId: none) and a text of texts: those
\* without children, and those with no child or one child without children.
LeafObjects(ids, texts) ==
    {Object(i, t, FALSE, <<>>) : i \in ids, t \in texts}

KidLists(ids, texts) ==
    {<<>>} \cup {<<kid>> : kid \in LeafObjects(ids, texts)}

Objects(ids, texts) ==
    {Object(i, t, FALSE, kids) :
        i \in ids, t \in texts, kids \in KidLists(ids, texts)}

\* The node objects an object is made into if none of them is merged.
Size(object) == 1 + Len(object.kids)

\* There are node objects left for the object, and the tree the call leaves
\* has at most maxLive nodes.
Fits(s, t, object, maxLive) ==
    /\ Cardinality(Nodes \ Free(s)) + Size(object) <= MaxNodes
    /\ Cardinality(InTree(t)) <= maxLive

\* What an insertion into the collection of ctx finds before it runs: the node
\* that has the id of the object (if any) with its removed and hidden flag,
\* its text and its children, and the collection itself.
Before(s, ctx, object) ==
    [existing |-> node(s, ctx, object.id),
     flags |-> IF node(s, ctx, object.id) # NoNode /\ object.id # NoId
               THEN {f \in {"removed", "hidden"} :
                        s.itree[node(s, ctx, object.id)].state[f]}
               ELSE {},
     kids |-> IF node(s, ctx, object.id) # NoNode /\ object.id # NoId
              THEN s.children[node(s, ctx, object.id)]
              ELSE <<>>,
     members |-> collection(s, ctx)]

\* An insertion as the observer records it: the node returned, the
\* collection and the object of the call, and what the call found.
Insertion(name, s, t, ctx, object) ==
    [name |-> name, node |-> t.ret, ctx |-> ctx, object |-> object,
     before |-> Before(s, ctx, object)]

\* collection.addNode(object) on tree.model or on the children of a node, for
\* the objects of a set, while the tree has room for them.
AddNodeOf(objects, maxLive) ==
    \E ctx \in Live \cup {NoNode}, object \in objects :
        LET t == addNode(Now, ctx, object)
        IN  /\ Fits(Now, t, object, maxLive)
            /\ CommitWith(t, Insertion("addNode", Now, t, ctx, object))

\* node.addChild(object)
AddChildOf(objects, maxLive) ==
    \E n \in Live, object \in objects :
        LET t == addChild(Now, n, object)
        IN  /\ Fits(Now, t, object, maxLive)
            /\ CommitWith(t, Insertion("addChild", resetChildren(Now, n), t,
                                       n, object))

\* node.expand() and node.loadChildren(), while the loader may be called.
\* The call of the loader that a call has made: the latest one, or none (0).
Made(s, t) == IF Len(t.loads) > Len(s.loads) THEN Len(t.loads) ELSE 0

ExpandNodeUpTo(maxLoads) ==
    \E n \in Live :
        LET t == expand(Now, n)
        IN  /\ Len(t.loads) <= maxLoads
            /\ CommitWith(t, [name |-> "expand", node |-> n,
                              load |-> Made(Now, t)])

LoadChildrenUpTo(maxLoads) ==
    \E n \in Live :
        LET t == loadChildren(Now, n)
        IN  Len(t.loads) <= maxLoads /\ Commit(t, "loadChildren", n)

ExpandNode == ExpandNodeUpTo(MaxLoads)

LoadChildren == LoadChildrenUpTo(MaxLoads)

\* The calls of the loader that have not called back. The state holds the
\* nodes of the tree only: the callbacks of a call for a node that has left
\* the tree are not followed.
InFlight == {i \in 1..Len(loads) : loads[i].inflight /\ loads[i].node # NoNode}

\* The loader reports the results of a call: no object, or one.
Complete ==
    \E i \in InFlight, results \in KidLists({NoId}, {"A", "B"}) :
        /\ Cardinality(Nodes \ Free(Now)) + Len(results) <= MaxNodes
        /\ CommitWith(complete(Now, i, results),
                      [name |-> "complete", node |-> loads[i].node,
                       load |-> i, results |-> results])

\* The loader reports the failure of a call.
Fail ==
    \E i \in InFlight :
        CommitWith(error(Now, i),
                   [name |-> "error", node |-> loads[i].node, load |-> i])

(* ------------------------------- Init --------------------------------- *)
RECURSIVE Ascending(_)
\* The members of a set of nodes in ascending order.
Ascending(S) ==
    IF S = {}
    THEN <<>>
    ELSE LET x == CHOOSE x \in S : \A y \in S : x <= y
         IN  <<x>> \o Ascending(S \ {x})

\* The tree a tree is constructed with: nodes 1..k, p[n] the parent of node
\* n (a node of smaller identity, or none), node n with id n and text "A",
\* collections in ascending order, nothing selected, nothing dirty, no batch
\* open; the nodes of U are collapsed and have the sentinel true for children.
InitTreeWith(p, k, U) ==
    /\ model = Ascending({n \in 1..k : p[n] = NoNode})
    /\ children = [n \in Nodes |-> Ascending({c \in 1..k : p[c] = n})]
    /\ itree = [n \in Nodes |-> [FreshItree EXCEPT !.parent = p[n],
                                                  !.state["collapsed"] = n \in U]]
    /\ unloaded = U
    /\ loads = <<>>
    /\ id = [n \in Nodes |-> IF n <= k THEN n ELSE NoId]
    /\ text = [n \in Nodes |-> IF n <= k THEN "A" ELSE NoText]
    /\ batching = 0
    /\ rendering = FALSE
    /\ cache = NoCache
    /\ copy = NoCopy
    /\ deep = NoDeep
    /\ obs = NoObs
    /\ op = [name |-> "init", node |-> NoNode]
    /\ seq = SeqIdle

InitTree(p, k) == InitTreeWith(p, k, {})

\* The configurations with given values of selection.allow (the selectable
\* nodes), of sort (sorted by text or not) and of the result of _.isArray on
\* a TreeNodes collection, which the build of the class decides; dynamic is
\* tree.isDynamic (config.data is a function), false in these.
ConfigsOf(allows, sorts, isArrays) ==
    [require : BOOLEAN, autoSelectChildren : BOOLEAN, showCheckboxes : BOOLEAN,
     autoDeselect : BOOLEAN, allow : allows, sort : sorts, isArray : isArrays,
     dynamic : {FALSE}]

Configs == ConfigsOf({Nodes}, {FALSE}, {FALSE})

\* A tree constructed from a configuration of `configs` and a forest of at
\* most `k` nodes.
InitFrom(configs, maxK) ==
    /\ config \in configs
    /\ \E k \in 0..maxK :
         \E p \in [Nodes -> Nodes \cup {NoNode}] :
            /\ \A n \in Nodes : IF n <= k THEN p[n] < n ELSE p[n] = NoNode
            /\ InitTree(p, k)

(* ------------------- the DOM: batching and render passes --------------- *)
\* The checkbox tree whose selections cascade to descendants and ancestors.
DomConfigs ==
    {c \in Configs : /\ c.showCheckboxes /\ c.autoSelectChildren
                      /\ ~c.require /\ ~c.autoDeselect}

InitDom == InitFrom(DomConfigs, MaxDomNodes)

NextDom ==
    \/ Batch
    \/ EndWith
    \/ ApplyChangesWith
    \/ SelectWith
    \/ DeselectWith

SpecDom == InitDom /\ [][NextDom]_vars

(* --------------------- the tree between two calls --------------------- *)
RECURSIVE AncestorsOf(_)
\* The ancestors of a node, by its parent references.
AncestorsOf(n) ==
    IF itree[n].parent = NoNode
    THEN {}
    ELSE {itree[n].parent} \cup AncestorsOf(itree[n].parent)

\* The descendants of a node, by the children collections.
DescendantsOf(n) == Range(recurseDown(Now, children[n]))

ChildrenOf(n) == Range(children[n])

AllChildrenSelected(P) == \A c \in ChildrenOf(P) : selected(Now, c)

SomeChildSelected(P) == \E c \in ChildrenOf(P) : selected(Now, c)

\* C1 (as amended): starting from batching = 0 with no render pass in
\* progress, a sequence of N >= 1 batch() calls followed by N end() calls, with
\* any selections and applyChanges() calls in between, starts exactly one
\* render pass, and the last end() starts it.
C1_BatchNesting ==
    seq.phase = "done" /\ seq.clean => seq.renders = 1 /\ seq.atEnd

\* A sequence of MaxBatch batch() calls, a selection inside it, and as many
\* end() calls has just ended.
C1_Witness ==
    /\ seq.phase = "done" /\ seq.clean /\ seq.n = MaxBatch
    /\ op.name = "end" /\ batching = 0
    /\ \E n \in Live : selected(Cur(NoCallback), n)

\* C1 as stated, for every sequence that starts from batching = 0, the ones a
\* handler issues while a render pass runs included.
C1_AsStated == seq.phase = "done" => seq.renders = 1 /\ seq.atEnd

\* C2: no render pass starts while batching > 0: a call that leaves the
\* counter above 0 has started none, applyChanges() included, and between
\* the first batch() of a sequence and its last end() no pass starts.
C2_ApplyChangesNoOp ==
    /\ obs.hot = 0
    /\ batching > 0 => obs.started = 0
    /\ seq.phase \in {"open", "close"} => seq.renders = 0

\* applyChanges() was called in a batch on a tree with unrendered changes,
\* and they are still unrendered.
C2_Witness ==
    /\ op.name = "applyChanges" /\ batching > 0 /\ obs.started = 0
    /\ \E n \in Live : itree[n].dirty /\ selected(Cur(NoCallback), n)

\* C3 as stated: the batching counter is never negative.
C3_NonNegative == batching >= 0

C5_AtomicUpdate ==
    op.name \in {"select", "deselect"} /\ batching = 0 /\ obs.wrote
        => obs.started = 1 /\ obs.late = 0

\* A select() of a parent has selected its child too and rendered once.
C5_Witness ==
    /\ op.name = "select" /\ batching = 0 /\ obs.wrote /\ obs.started = 1
    /\ \E n \in Live : /\ n # op.node /\ itree[n].parent = op.node
                         /\ selected(Cur(NoCallback), n)
                         /\ selected(Cur(NoCallback), op.node)

\* C5 as stated, for every select() made with batching = 0, the ones a
\* handler makes while a render pass runs included.
C5_AsStated ==
    /\ C5_AtomicUpdate
    /\ obs.nested.name = "select" /\ obs.nested.atZero /\ obs.nested.changed
         => obs.nested.started = 1

(* ------------------------------ selection ------------------------------ *)
\* Trees whose selections cascade to the descendants.
SelConfigs == {c \in Configs : c.autoSelectChildren}

InitSel == InitFrom(SelConfigs, MaxNodes)

NextSel ==
    \/ Select
    \/ Deselect

SpecSel == InitSel /\ [][NextSel]_vars

\* The last call was a select() that selected its node.
Selected(n) == op.name = "select" /\ op.node = n /\ obs.wrote

\* The last call was a deselect() that deselected its node.
Deselected(n) == op.name = "deselect" /\ op.node = n /\ obs.wrote

AncestorsSettled(n) ==
    \A P \in AncestorsOf(n) :
        (~indeterminate(Now, P) /\ selected(Now, P)) <=> AllChildrenSelected(P)

\* C7 (as amended): after a select() of N with auto-select-children
\* enabled every descendant of N is selected, and in checkbox mode every
\* ancestor P of N is (selected and not indeterminate) exactly when all of
\* P's direct children are selected.
C7_SelectCascade ==
    \A n \in Live :
        Selected(n) /\ config.autoSelectChildren =>
            /\ \A d \in DescendantsOf(n) : selected(Now, d)
            /\ config.showCheckboxes => AncestorsSettled(n)

\* A node with a child, a parent and a grandparent was selected in checkbox
\* mode: its child is selected, and so are its parent and its grandparent,
\* all of whose children are now selected.
C7_Witness ==
    \E n \in Live :
        /\ Selected(n) /\ config.autoSelectChildren /\ config.showCheckboxes
        /\ DescendantsOf(n) # {} /\ hasParent(Now, n)
        /\ \A d \in DescendantsOf(n) : selected(Now, d)
        /\ LET P == getParent(Now, n)
           IN  /\ AllChildrenSelected(P)
               /\ selected(Now, P) /\ ~indeterminate(Now, P)
               /\ hasParent(Now, P)
               /\ selected(Now, getParent(Now, P))

\* C7 as stated, for trees with and without checkboxes.
C7_AsStated ==
    \A n \in Live :
        Selected(n) /\ config.autoSelectChildren =>
            /\ \A d \in DescendantsOf(n) : selected(Now, d)
            /\ AncestorsSettled(n)

\* C8 as stated: in checkbox mode every node with children is indeterminate
\* exactly when some but not all of its direct children are selected.
C8_Indeterminate ==
    config.showCheckboxes =>
        \A P \in Live :
            hasChildren(Now, P) =>
                (indeterminate(Now, P) <=>
                    SomeChildSelected(P) /\ ~AllChildrenSelected(P))

OtherUnselected(n) ==
    \E c \in ChildrenOf(getParent(Now, n)) : c # n /\ ~selected(Now, c)

\* C9 (as amended): with auto-select-children and checkbox mode on, a
\* select() of a child N of P leaves P indeterminate and not selected when
\* P has another child that is not selected, and leaves P selected and not
\* indeterminate when N is P's only child.
C9_ScenarioA ==
    \A n \in Live :
        /\ Selected(n) /\ hasParent(Now, n)
        /\ config.autoSelectChildren /\ config.showCheckboxes
        => LET P == getParent(Now, n)
           IN  /\ OtherUnselected(n) =>
                     indeterminate(Now, P) /\ ~selected(Now, P)
               /\ ChildrenOf(P) = {n} =>
                     selected(Now, P) /\ ~indeterminate(Now, P)

\* One of two children was selected in such a tree.
C9_Witness ==
    \E n \in Live :
        /\ Selected(n) /\ hasParent(Now, n)
        /\ config.autoSelectChildren /\ config.showCheckboxes
        /\ OtherUnselected(n)
        /\ indeterminate(Now, getParent(Now, n))
        /\ ~selected(Now, getParent(Now, n))

\* C9 as stated: P is left not indeterminate and not selected when it has
\* another child that is not selected.
C9_AsStated ==
    \A n \in Live :
        /\ Selected(n) /\ hasParent(Now, n)
        /\ config.autoSelectChildren /\ config.showCheckboxes
        => LET P == getParent(Now, n)
           IN  /\ OtherUnselected(n) =>
                     ~indeterminate(Now, P) /\ ~selected(Now, P)
               /\ ChildrenOf(P) = {n} => selected(Now, P)

\* C10 as stated: with auto-select-children enabled, after a deselect() of
\* N that deselected N, no descendant of N is selected.
C10_DeselectCascade ==
    \A n \in Live :
        Deselected(n) /\ config.autoSelectChildren =>
            \A d \in DescendantsOf(n) : ~selected(Now, d)

(* --------------------- selection in a changing tree -------------------- *)
NextTree ==
    \/ Select
    \/ Deselect
    \/ AddNode
    \/ Remove

\* The checkbox tree whose selections cascade to descendants and ancestors.
TreeConfigs == DomConfigs

InitTreeSpec == InitFrom(TreeConfigs, MaxTreeNodes)

SpecTree == InitTreeSpec /\ [][NextTree]_vars

(* ------------------------------ visibility ----------------------------- *)
\* C6: visible(N) is true exactly when N is neither hidden nor removed and
\* no ancestor of N, at any depth, is collapsed, hidden or removed.
C6_Visible ==
    \A n \in Live :
        visible(Now, n) <=>
            /\ ~hidden(Now, n) /\ ~removed(Now, n)
            /\ \A a \in AncestorsOf(n) :
                  ~collapsed(Now, a) /\ ~hidden(Now, a) /\ ~removed(Now, a)

\* A node that is neither hidden nor removed, under a parent that is
\* neither hidden, removed nor collapsed, is invisible because of its
\* collapsed grandparent, whose other descendants were shown again.
C6_Witness ==
    \E n \in Live :
        /\ ~hidden(Now, n) /\ ~removed(Now, n) /\ hasParent(Now, n)
        /\ LET P == getParent(Now, n)
           IN  /\ ~hidden(Now, P) /\ ~removed(Now, P) /\ ~collapsed(Now, P)
               /\ hasParent(Now, P)
               /\ collapsed(Now, getParent(Now, P))
               /\ ~hidden(Now, getParent(Now, P))
        /\ ~visible(Now, n)
        /\ op.name = "show"

NextVis ==
    \/ Hide
    \/ Show
    \/ Collapse
    \/ Expand
    \/ SoftRemove
    \/ Restore

\* visible() reads no configuration.
VisConfigs ==
    {c \in Configs : /\ ~c.showCheckboxes /\ ~c.autoSelectChildren
                      /\ ~c.require /\ ~c.autoDeselect}

\* visible() of a node reads the node and its ancestors, so the tree is a
\* chain: the parent of a node is the node before it.
InitVis ==
    /\ config \in VisConfigs
    /\ \E k \in 0..MaxVisNodes :
         InitTree([n \in Nodes |-> IF n <= k THEN n - 1 ELSE NoNode], k)

SpecVis == InitVis /\ [][NextVis]_vars

(* ------------------------ calls that change nothing -------------------- *)
\* Trees whose first node is not selectable.
NoopConfigs == ConfigsOf({Nodes \ {1}}, {FALSE}, {FALSE})

InitNoop == InitFrom(NoopConfigs, MaxDomNodes)

NextNoop ==
    \/ Select
    \/ Deselect
    \/ Batch
    \/ End

SpecNoop == InitNoop /\ [][NextNoop]_vars

\* The step is the call `name` on node n.
Called(name, n) == op'.name = name /\ op'.node = n

\* The step left every node, every collection and the batching counter as
\* they were, emitted nothing and asked for no render.
Silent ==
    /\ itree' = itree /\ model' = model /\ children' = children
    /\ batching' = batching /\ rendering' = rendering
    /\ ~obs'.emitted /\ ~obs'.wrote
    /\ obs'.started = 0 /\ obs'.suppressed = 0

\* C11: select(N) on a node that is already selected or is not selectable
\* changes no state flag and no dirty flag of any node, leaves the batching
\* counter as it was, emits no notification and starts no render pass.
C11_SelectNoOp ==
    [][\A n \in Live :
          Called("select", n) /\ (selected(Now, n) \/ ~selectable(Now, n))
              => Silent]_vars

\* select() was called inside a batch on a node that is not selectable,
\* while another node is selected and waits to be rendered: the node is
\* still unselected and the other still dirty.
C11_Witness ==
    /\ op.name = "select" /\ op.node \notin config.allow
    /\ ~selected(Now, op.node) /\ ~obs.wrote /\ batching > 0
    /\ \E k \in Live : k # op.node /\ selected(Now, k) /\ itree[k].dirty

\* The node of the call is the only selected node of the tree.
LastSelected(n) == selected(Now, n) /\ treeSelected(Now) \subseteq {n}

\* C12: deselect(N) on a node that is not selected, or that is the last
\* selected node while selection.require is on, changes nothing: N keeps
\* its selected flag and no other node's state changes.
C12_DeselectNoOp ==
    [][\A n \in Live :
          /\ Called("deselect", n)
          /\ ~selected(Now, n) \/ (config.require /\ LastSelected(n))
          => Silent]_vars

\* deselect() was called on the only selected node of a tree that requires
\* a selection and cascades selections; the node has a parent and is still
\* selected.
C12_Witness ==
    /\ op.name = "deselect" /\ config.require /\ config.autoSelectChildren
    /\ op.node \in Live /\ LastSelected(op.node) /\ ~obs.wrote
    /\ hasParent(Now, op.node)

(* ------------------------- insertion and merge ------------------------- *)
\* Trees without selection policies.
MergeConfigs == VisConfigs

\* The ids of the nodes a tree is constructed with.
InitIds == 1..MaxDomNodes

\* An object with the id of a node the tree may have been constructed with is
\* added to tree.model or to the children of a node.
AddExisting == AddNodeOf(LeafObjects(InitIds, {"B"}), MaxDomNodes)

InitMerge == InitFrom(MergeConfigs, MaxDomNodes)

NextRestore ==
    \/ AddExisting
    \/ Hide
    \/ SoftRemove

SpecRestore == InitMerge /\ [][NextRestore]_vars

\* The last call was an addNode() that found a node with the id of its object.
Merged == op.name = "addNode" /\ op.before.existing # NoNode /\ op.object.id # NoId

\* C13: an addNode() of an object whose id a node of the collection has (by
\* recursive lookup) leaves the collection with the members it had, returns
\* that node, and leaves it neither removed nor hidden.
C13_MergeNoDuplicate ==
    Merged =>
        /\ collection(Now, op.ctx) = op.before.members
        /\ op.node = op.before.existing
        /\ ~removed(Now, op.node) /\ ~hidden(Now, op.node)

\* An object with the id of a node that was soft-removed and hidden was
\* added to the root collection, which still has its two members.
C13_Witness ==
    /\ Merged /\ op.before.flags = {"removed", "hidden"}
    /\ op.ctx = NoNode /\ Len(model) = 2
    /\ ~removed(Now, op.node) /\ ~hidden(Now, op.node)

\* The objects a caller adds: with no id or the id of a node the tree may have
\* been constructed with, and with a text no node was constructed with.
DataIds == {NoId} \cup InitIds

AddData == AddNodeOf(Objects(DataIds, {"B"}), MaxTreeNodes)

NextMerge == AddData

SpecMerge == InitMerge /\ [][NextMerge]_vars

\* C14 as stated: after an addNode() of an object whose id a node of the
\* collection has, the text of that node is the text of the object.
C14_ScenarioB == Merged => text[op.before.existing] = op.object.text

\* The children the node of the last call has now and had not before.
NewKids == {k \in ChildrenOf(op.node) : k \notin Range(op.before.kids)}

\* A member of the collection of node e stands for the incoming child object:
\* a node below e has the id of the object (it was merged, or made from it),
\* or, for an object without id, a new child of e has its text.
Incoming(kid, e) ==
    IF kid.id # NoId
    THEN \E d \in DescendantsOf(e) : id[d] = kid.id
    ELSE \E k \in NewKids : text[k] = kid.text /\ id[k] = generatedId(k)

\* C16: after an addNode() that merged an object into an existing node,
\* every child the node had before is still in its children collection, in
\* the same relative order, and each child object of the incoming data is
\* a node below the existing node: a new child, or a node it was merged into.
C16_MergeExtends ==
    Merged =>
        /\ SelectSeq(children[op.node], LAMBDA k : k \in Range(op.before.kids))
              = op.before.kids
        /\ \A i \in 1..Len(op.object.kids) : Incoming(op.object.kids[i], op.node)
        /\ \A k \in NewKids :
              \E i \in 1..Len(op.object.kids) :
                  /\ text[k] = op.object.kids[i].text
                  /\ op.object.kids[i].id \in {NoId, id[k]}

\* An object with a child object was merged into a node that had a child:
\* the node has its old child first and the new one after it.
C16_Witness ==
    /\ Merged /\ Len(op.before.kids) = 1 /\ Len(op.object.kids) = 1
    /\ Len(children[op.node]) = 2
    /\ children[op.node][1] = op.before.kids[1]
    /\ text[children[op.node][2]] = "B"

(* ------------------------------ unique ids ----------------------------- *)
\* Trees without selection policies, in either build of the TreeNodes class.
IdsConfigs ==
    {c \in ConfigsOf({Nodes}, {FALSE}, BOOLEAN) :
        /\ ~c.showCheckboxes /\ ~c.autoSelectChildren
        /\ ~c.require /\ ~c.autoDeselect}

AddChild == AddChildOf(Objects(DataIds, {"B"}), MaxTreeNodes)

InitIdsSpec == InitFrom(IdsConfigs, MaxDomNodes)

NextIds ==
    \/ AddData
    \/ AddChild

SpecIds == InitIdsSpec /\ [][NextIds]_vars

\* C15 as stated: no two distinct nodes of the tree have the same id.
C15_UniqueIds == \A n, k \in Live : n # k => id[n] # id[k]

(* --------------------------- sorted insertion -------------------------- *)
\* Trees without selection policies, sorted by text or not sorted.
SortConfigs ==
    {c \in ConfigsOf({Nodes}, BOOLEAN, {FALSE}) :
        /\ ~c.showCheckboxes /\ ~c.autoSelectChildren
        /\ ~c.require /\ ~c.autoDeselect}

Texts == Range(TextOrder)

\* addNode() of an object without id and children, with any of the texts.
AddText == AddNodeOf(LeafObjects({NoId}, Texts), MaxTreeNodes)

\* A tree whose nodes all have the same text: each collection is sorted.
InitSort == InitFrom(SortConfigs, MaxDomNodes)

NextSort == AddText

SpecSort == InitSort /\ [][NextSort]_vars

\* The last call was an addNode() that made a new node.
Inserted == op.name = "addNode" /\ ~Merged

\* The position of a member in a sequence without repetitions.
IndexOf(q, x) == CHOOSE i \in 1..Len(q) : q[i] = x

key(n) == Rank(text[n])

\* Node m stands in collection c where the first member not less than m stood.
AtFirstNotLess(c, m) ==
    /\ \A j \in 1..(IndexOf(c, m) - 1) : key(c[j]) < key(m)
    /\ IndexOf(c, m) < Len(c) => key(c[IndexOf(c, m) + 1]) >= key(m)

Sorted(c) == \A i, j \in 1..Len(c) : i < j => key(c[i]) <= key(c[j])

\* C17: with config.sort set, addNode() puts a new node where the first
\* member not less than it stood, and the collections, built by addNode()
\* calls only, are sorted after every call; without config.sort addNode() puts
\* a new node at the end.  The other members keep their order.
C17_SortedInsert ==
    /\ Inserted =>
         /\ RemoveSeq(collection(Now, op.ctx), op.node) = op.before.members
         /\ IF config.sort
            THEN AtFirstNotLess(collection(Now, op.ctx), op.node)
            ELSE collection(Now, op.ctx) = Append(op.before.members, op.node)
    /\ config.sort => \A ctx \in Live \cup {NoNode} : Sorted(collection(Now, ctx))

\* In a sorted tree a new node was put between a member with a smaller text
\* and a member with the same text.
C17_Witness ==
    /\ Inserted /\ config.sort /\ Len(collection(Now, op.ctx)) = 3
    /\ collection(Now, op.ctx)[2] = op.node
    /\ key(collection(Now, op.ctx)[1]) < key(op.node)
    /\ key(collection(Now, op.ctx)[3]) = key(op.node)

(* ------------------------------- removal ------------------------------- *)
\* Trees with and without checkboxes and cascading selections.
RemoveConfigs == {c \in Configs : ~c.require /\ ~c.autoDeselect}

InitRemove == InitFrom(RemoveConfigs, MaxTreeNodes)

NextRemove ==
    \/ Select
    \/ Deselect
    \/ RemoveNode

SpecRemove == InitRemove /\ [][NextRemove]_vars

\* The indeterminate state of P is the one its children give it: P is
\* selected exactly when all of them are, and otherwise indeterminate exactly
\* when one of them is selected or indeterminate; without children P is not
\* indeterminate.
Recomputed(P) ==
    IF ChildrenOf(P) = {}
    THEN ~indeterminate(Now, P)
    ELSE /\ selected(Now, P) <=> AllChildrenSelected(P)
         /\ indeterminate(Now, P) <=>
               /\ ~selected(Now, P)
               /\ \E c \in ChildrenOf(P) : selected(Now, c) \/ indeterminate(Now, c)

\* C18: remove(N) takes exactly N out of its context collection (the other
\* members stay, in their order), leaves the indeterminate state of the
\* parent recomputed from the remaining children (in checkbox mode), and
\* returns the export of the subtree of N.
C18_Remove ==
    op.name = "remove" =>
        /\ op.node \notin Range(collection(Now, op.parent))
        /\ collection(Now, op.parent) = RemoveSeq(op.members, op.node)
        /\ op.parent # NoNode /\ config.showCheckboxes => Recomputed(op.parent)
        /\ op.exported = op.subtree

\* In a checkbox tree the unselected one of the two children of a node was
\* removed: the other child is selected, and so is the node now.
C18_Witness ==
    /\ op.name = "remove" /\ op.parent # NoNode /\ config.showCheckboxes
    /\ Len(op.members) = 2 /\ Len(collection(Now, op.parent)) = 1
    /\ selected(Now, op.parent) /\ ~indeterminate(Now, op.parent)
    /\ AllChildrenSelected(op.parent)
    /\ op.exported.children = <<>>

(* ----------------------------- soft removal ---------------------------- *)
\* Node d is excluded from the queries on visibility and availability, of
\* the node and of the tree.
Excluded(d) ==
    /\ ~visible(Now, d) /\ d \notin treeVisible(Now)
    /\ ~available(Now, d) /\ d \notin treeAvailable(Now)

\* C19 as stated: while a node is soft-removed, the node and every
\* descendant of it are excluded from the visible and the available queries.
C19_SoftRemoved ==
    \A n \in Live :
        removed(Now, n) => \A d \in {n} \cup DescendantsOf(n) : Excluded(d)

(* ----------------------------- dynamic load ---------------------------- *)
\* Dynamic trees without selection policies.
LoadConfigs == {[c EXCEPT !.dynamic = TRUE] : c \in VisConfigs}

\* A dynamic tree: some of its nodes without children are collapsed and have
\* the sentinel for children.
InitLoad ==
    /\ config \in LoadConfigs
    /\ \E k \in 0..MaxLoadNodes :
         \E p \in [Nodes -> Nodes \cup {NoNode}] :
            /\ \A n \in Nodes : IF n <= k THEN p[n] < n ELSE p[n] = NoNode
            /\ \E U \in SUBSET {n \in 1..k : \A c \in 1..k : p[c] # n} :
                  InitTreeWith(p, k, U)

NextLoad ==
    \/ ExpandNode
    \/ LoadChildren
    \/ Collapse
    \/ Complete
    \/ Fail

SpecLoad == InitLoad /\ [][NextLoad]_vars

\* The step is an expand() of a collapsed node with the sentinel for children,
\* and leaves the node loading, with the sentinel, and a pending call of the
\* loader that the expand() waits for.
ExpandLoads(n) ==
    Called("expand", n) /\ isUnloaded(Now, n) /\ collapsed(Now, n) =>
        /\ itree'[n].state["loading"] /\ n \in unloaded'
        /\ loads' = Append(loads, [Load(n, "pending") EXCEPT !.by = "expand"])

\* The texts of the members of a collection, and of a list of raw objects.
TextsOf(txt, c) == [j \in 1..Len(c) |-> txt[c[j]]]

ResultTexts(results) == [j \in 1..Len(results) |-> results[j].text]

\* The step resolves the promise of the i-th call of the loader: it is the
\* callback complete(results) of that call, and it leaves the node not
\* loading, with a collection made from the results for children.
ResolvesLoaded(i) ==
    loads[i].promise = "pending" /\ loads'[i].promise = "resolved" =>
        /\ op'.name = "complete" /\ op'.load = i
        /\ ~itree'[loads[i].node].state["loading"]
        /\ loads[i].node \notin unloaded'
        /\ TextsOf(text', children'[loads[i].node]) = ResultTexts(op'.results)
        /\ \A c \in Range(children'[loads[i].node]) :
              itree'[c].parent = loads[i].node

\* The step leaves a node that has a collection for children with one, and
\* takes the sentinel from a node that stays in the tree only if the node was
\* loading and is not loading afterwards.
Phases(n) ==
    id[n] # NoId /\ id'[n] = id[n] =>
        /\ n \notin unloaded => n \notin unloaded'
        /\ n \in unloaded /\ n \notin unloaded' =>
              loading(Now, n) /\ ~itree'[n].state["loading"]

\* C20: expand() of a collapsed node whose children is the unloaded sentinel
\* starts a load (loading = true, the sentinel still in place) and waits for
\* it; its promise is resolved only by the loader's complete(results), which
\* leaves loading = false and children the collection made from the results
\* (possibly empty); the sentinel goes only from a loading node, and a node
\* whose children is a collection never has the sentinel again.
C20_LoadProtocol ==
    [][/\ \A n \in Live : ExpandLoads(n)
       /\ \A i \in 1..Len(loads) : ResolvesLoaded(i)
       /\ \A n \in Nodes : Phases(n)]_vars

\* An expand() started a load, the loader reported one object, and the
\* expand() is resolved: the node is expanded, not loading, and has one child.
C20_Witness ==
    /\ op.name = "complete"
    /\ loads[op.load].by = "expand" /\ loads[op.load].promise = "resolved"
    /\ ~loading(Now, op.node) /\ ~collapsed(Now, op.node)
    /\ op.node \notin unloaded
    /\ Len(children[op.node]) = 1 /\ text[children[op.node][1]] = "B"

\* The step is the loader's error(err) for the call that the expand() of the
\* step before made on a collapsed node with the sentinel for children.
ExpandFails(n) ==
    /\ op.name = "expand" /\ op.node = n
    /\ op'.name = "error" /\ op'.node = n /\ op'.load = op.load
    /\ loads[op'.load].by = "expand" /\ loads[op'.load].promise = "pending"

\* C21: Scenario C: expand() of a collapsed node whose children is the
\* unloaded sentinel, then the loader's report of failure: the node is not
\* collapsed, not loading, and its children is an empty collection, not the
\* sentinel.
C21_ScenarioC ==
    [][\A n \in Live :
          ExpandFails(n) =>
              /\ ~itree'[n].state["collapsed"] /\ ~itree'[n].state["loading"]
              /\ n \notin unloaded' /\ children'[n] = <<>>]_vars

\* The loader has failed the load of the expand() before: the node is
\* expanded, not loading, with an empty collection, and the expand() rejected.
C21_Witness ==
    /\ op.name = "error"
    /\ loads[op.load].by = "expand" /\ loads[op.load].promise = "rejected"
    /\ ~collapsed(Now, op.node) /\ ~loading(Now, op.node)
    /\ op.node \notin unloaded /\ children[op.node] = <<>>

\* C22: a failed load is reported, not thrown: the loader's error(err) for a
\* call emits tree.loaderror once for the call, and leaves the promise of the
\* call that started the load (loadChildren(), and the expand() that waits
\* for it) rejected with the err of the loader.
C22_FailureReported ==
    [][\A i \in 1..Len(loads) :
          loads[i].inflight /\ op'.name = "error" /\ op'.load = i =>
              /\ loads'[i].loaderrors = 1
              /\ loads'[i].promise = "rejected"
              /\ loads'[i].error = "loader"]_vars

\* The step is a callback of the loader for a call on node n.
CallsBack(name, n) ==
    /\ Called(name, n)
    /\ op'.load \in InFlight /\ loads[op'.load].node = n

\* C24: an in-flight load is not cancelled: when the loader calls back for a
\* node, whatever was done to the node since the load began (a collapse, say),
\* the callback leaves loading = false and a collection for children, made
\* from the results on success and empty on failure, and leaves the
\* collapsed flag of the node as it was.
C24_NoCancellation ==
    [][\A n \in Live :
          /\ CallsBack("complete", n) =>
                /\ ~itree'[n].state["loading"] /\ n \notin unloaded'
                /\ TextsOf(text', children'[n]) = ResultTexts(op'.results)
                /\ itree'[n].state["collapsed"] = collapsed(Now, n)
          /\ CallsBack("error", n) =>
                /\ ~itree'[n].state["loading"] /\ n \notin unloaded'
                /\ children'[n] = <<>>
                /\ itree'[n].state["collapsed"] = collapsed(Now, n)]_vars

\* A node was expanded, collapsed while its load was in flight, and the load
\* has completed with one object: the node is collapsed, not loading, and has
\* the child.
C24_Witness ==
    /\ op.name = "complete"
    /\ loads[op.load].by = "expand"
    /\ collapsed(Now, op.node) /\ ~loading(Now, op.node)
    /\ op.node \notin unloaded /\ Len(children[op.node]) = 1

(* ------------------------------ load again ----------------------------- *)
ExpandAgain == ExpandNodeUpTo(MaxReloads)

LoadAgain == LoadChildrenUpTo(MaxReloads)

NextReload ==
    \/ ExpandAgain
    \/ LoadAgain
    \/ Collapse
    \/ Complete
    \/ Fail

SpecReload == InitLoad /\ [][NextReload]_vars

\* C23: while a node with the unloaded sentinel is loading (its loading flag
\* is true), a loadChildren() or an expand() of the node does not call the
\* data loader again.
C23_NoDoubleFetch ==
    [][\A n \in Live :
          /\ isUnloaded(Now, n) /\ loading(Now, n)
          /\ Called("loadChildren", n) \/ Called("expand", n)
          => loads' = loads]_vars

(* ------------------------------ dirty nodes ---------------------------- *)
\* node.markDirty() and dom.applyChanges() called from outside.
MarkDirty == \E n \in Live : Commit(markDirty(Now, n), "markDirty", n)

ApplyChanges == Commit(applyChanges(Now), "applyChanges", NoNode)

InitDirty == InitFrom(VisConfigs, MaxTreeNodes)

NextDirty ==
    \/ MarkDirty
    \/ ApplyChanges

SpecDirty == InitDirty /\ [][NextDirty]_vars

\* C25: after a markDirty() of N has returned, N and every ancestor of N up
\* to the root level are dirty.
C25_DirtyAncestors ==
    op.name = "markDirty" =>
        /\ itree[op.node].dirty
        /\ \A P \in AncestorsOf(op.node) : itree[P].dirty

\* C26: markDirty is idempotent: a second markDirty() of a node, with no
\* render between, leaves every dirty flag as the first left it.
C26_Idempotent ==
    \A n \in Live : markDirty(markDirty(Now, n), n) = markDirty(Now, n)

\* A markDirty() of a node with a parent has returned with no render since:
\* the node is dirty, and a second call would change nothing.
C26_Witness ==
    /\ op.name = "markDirty" /\ hasParent(Now, op.node)
    /\ itree[op.node].dirty /\ itree[getParent(Now, op.node)].dirty
    /\ markDirty(Now, op.node) = Now

\* The step is an applyChanges() that runs a render pass.
Renders == op'.name = "applyChanges" /\ batching = 0 /\ ~rendering

\* C27: a node that is dirty when a render pass starts has its list item
\* built in that pass, not served from the cache, whatever mutations and
\* passes came before, a pass at which the node was dirty too included.
C27_DirtyRebuilt ==
    [][Renders =>
          \A n \in Live :
              itree[n].dirty => n \in createOrderedList(Now, NoNode)]_vars

\* The last visual tree has a cache node for the list item of n, and its
\* input record { dirty, text } equals the one a pass would make now.
SameInput(n) ==
    /\ cache.li[n].built
    /\ cache.li[n].dirty = itree[n].dirty /\ cache.li[n].text = text[n]

\* The same for the ordered list of a collection, under the rule of ordered
\* lists: the same count, and no member dirty.
SameList(ctx) ==
    /\ cache.ol[ctx].built
    /\ cache.ol[ctx].nodeCount = Len(collection(Now, ctx))
    /\ \A m \in Range(collection(Now, ctx)) : ~itree[m].dirty

\* The pass of the step leaves the cache node of the list item of n and the
\* node as they were: the builder, which ends with node.itree.dirty = false,
\* has not run.
Served(n) == cache'.li[n] = cache.li[n] /\ itree'[n] = itree[n]

RECURSIVE asObject(_)
asObject(exported) ==
    Object(exported.id, exported.text, FALSE,
           [i \in 1..Len(exported.children) |-> asObject(exported.children[i])])

\* tree.addNode(node.export()) in a tree that has no node with these ids: the
\* node objects made from the export of n; ret is the node made for n.
imported(s, n) == objectToModel(s, asObject(export(s, n)), NoNode)

\* The state flags of a node that are not bookkeeping of a load in flight.
StateFlags == Flags \ {"loading"}

\* Node n of state s and node m of state t have the same id and text, and
\* children that are the same in this sense, in the same order.
RECURSIVE SameNode(_, _, _, _)
SameNode(s, n, t, m) ==
    /\ s.id[n] = t.id[m] /\ s.text[n] = t.text[m]
    /\ Len(s.children[n]) = Len(t.children[m])
    /\ \A i \in 1..Len(s.children[n]) :
          SameNode(s, s.children[n][i], t, t.children[m][i])

\* The same, and the same state flags, at every depth.
RECURSIVE SameState(_, _, _, _)
SameState(s, n, t, m) ==
    /\ SameNode(s, n, t, m)
    /\ \A f \in StateFlags : s.itree[n].state[f] = t.itree[m].state[f]
    /\ \A i \in 1..Len(s.children[n]) :
          SameState(s, s.children[n][i], t, t.children[m][i])

\* The node objects an import has made.
Made29(s, t) == Free(s) \ Free(t)

\* There are node objects left for an import of the subtree of n.
Importable(n) == 1 + Cardinality(DescendantsOf(n)) <= Cardinality(Free(Now))

\* C29 (as amended): for every node N, importing export(N) reconstructs a
\* node whose id, text and child structure are equal to those of N; the state
\* flags are not exported, and the nodes made have the state flags of a new
\* node.
C29_RoundTrip ==
    \A n \in Live :
        Importable(n) =>
            /\ SameNode(Now, n, imported(Now, n), imported(Now, n).ret)
            /\ \A m \in Made29(Now, imported(Now, n)) :
                  imported(Now, n).itree[m].state = FreshItree.state

\* A hidden node with a child is exported and imported: the node made has the
\* id, the text and a child, and is not hidden.
C29_Witness ==
    \E n \in Live :
        /\ Importable(n) /\ hasChildren(Now, n) /\ hidden(Now, n)
        /\ hasChildren(imported(Now, n), imported(Now, n).ret)
        /\ ~hidden(imported(Now, n), imported(Now, n).ret)

\* C29 as stated: the state flags (selected, collapsed, hidden, removed, ...)
\* of the node made are equal to those of N as well.
C29_AsStated ==
    \A n \in Live :
        Importable(n) =>
            SameState(Now, n, imported(Now, n), imported(Now, n).ret)

(* --------------------------------- clone ------------------------------- *)
\* The trees that are cloned have at most this many nodes.
MaxCloneNodes == 2

\* The copy _.cloneDeep makes of node m: the nodes of the tree are copied to
\* the node objects that do not exist yet, in ascending order.  The
\* constructor copies every key of the source, _tree and itree with
\* _.cloneDeep (the guard !_.startsWith('_') holds of every key), and
\* itree.parent and _tree reach the whole tree, so every node is copied; the
\* copies one clone() makes of the same node are one node object here.
twin(s, m) ==
    IF m = NoNode
    THEN NoNode
    ELSE Ascending(Free(s))[Cardinality({x \in InTree(s) : x <= m})]

twins(s, q) == [i \in 1..Len(q) |-> twin(s, q[i])]

Copies(s) == {twin(s, m) : m \in InTree(s)}

\* The node a copy is the copy of.
source(s, k) == CHOOSE m \in InTree(s) : twin(s, m) = k

\* node[key] = value.clone() for children, node[key] = _.cloneDeep(value) for
\* itree, node[key] = value for id and text: the heap after node.clone(), the
\* cache nodes of the copy of the InspireDOM included; ret is the clone.
copied(s, n) ==
    [s EXCEPT
       !.id = [k \in Nodes |-> IF k \in Copies(s) THEN s.id[source(s, k)] ELSE @[k]],
       !.text = [k \in Nodes |->
                    IF k \in Copies(s) THEN s.text[source(s, k)] ELSE @[k]],
       !.children = [k \in Nodes |->
                        IF k \in Copies(s)
                        THEN twins(s, s.children[source(s, k)])
                        ELSE @[k]],
       !.itree = [k \in Nodes |->
                     IF k \in Copies(s)
                     THEN [s.itree[source(s, k)] EXCEPT !.parent = twin(s, @)]
                     ELSE @[k]],
       !.unloaded = @ \cup {twin(s, m) : m \in @ \cap InTree(s)},
       !.cache = [li |-> [k \in Nodes |->
                            IF k \in Copies(s) THEN @.li[source(s, k)] ELSE @.li[k]],
                  ol |-> [k \in Contexts |->
                            IF k \in Copies(s) THEN @.ol[source(s, k)] ELSE @.ol[k]]],
       !.ret = twin(s, n)]

\* A faulty variant: a constructor that copies the reference to the children
\* collection of the source.
cloneShallow(s, n) ==
    [copied(s, n) EXCEPT !.children[twin(s, n)] = s.children[n]]

\* node.clone(): new TreeNode(this._tree, this)
clone(s, n) == copied(s, n)

\* new TreeNodes(this._tree, this) sets _tree and pushes the clones, and sets
\* no _context: the collections of the clone and of the clones below it have
\* none. hasCollection: the children of a node without children are an empty
\* collection rather than undefined.
contextless(s, n, hasCollection) ==
    {twin(s, m) : m \in {x \in {n} \cup Range(recurseDown(s, s.children[n])) :
                             hasChildren(s, x) \/ hasCollection}}

\* The program state a call on a node of the copy starts from: the heap, and
\* the tree and InspireDOM of the copy.
CopyNow ==
    [Now EXCEPT !.model = copy.model, !.batching = copy.batching,
                !.rendering = copy.rendering, !.cache.ol[NoNode] = copy.ol]

\* The nodes of the copy of the tree.
CopyLive == InTree(CopyNow)

\* The nodes of the copy that are members of the collection of their parent,
\* or of the root collection.
Members == {n \in CopyLive : hasParent(Now, n) \/ n \in Range(copy.model)}

\* A call on the copy has run: the heap is the one it left, the tree and the
\* InspireDOM of the original are as they were.
CommitCopy(s, call, orphans) ==
    /\ children' = s.children
    /\ itree' = s.itree
    /\ id' = s.id
    /\ text' = s.text
    /\ unloaded' = s.unloaded
    /\ loads' = s.loads
    /\ cache' = [s.cache EXCEPT !.ol[NoNode] = cache.ol[NoNode]]
    /\ copy' = [node |-> copy.node, model |-> s.model, batching |-> s.batching,
                rendering |-> s.rendering, ol |-> s.cache.ol[NoNode],
                orphans |-> {k \in orphans : s.id[k] # NoId}]
    /\ obs' = [started |-> s.started, suppressed |-> s.suppressed,
               peak |-> s.peak, hot |-> s.hot, late |-> s.late,
               wrote |-> s.wrote, emitted |-> s.emitted, nested |-> s.nested]
    /\ op' = call
    /\ UNCHANGED <<model, batching, rendering, config, deep, seq>>

\* A call of the copy, as the observer records it.
OnCopy(name, n) == [name |-> name, node |-> n, on |-> "copy"]

\* var clone = node.clone(), once, in a tree with room for the copies.
CloneNode ==
    /\ copy.node = NoNode
    /\ Cardinality(Live) <= Cardinality(Free(Now))
    /\ \E n \in Live, hasCollection \in BOOLEAN :
         /\ children' = clone(Now, n).children
         /\ itree' = clone(Now, n).itree
         /\ id' = clone(Now, n).id
         /\ text' = clone(Now, n).text
         /\ unloaded' = clone(Now, n).unloaded
         /\ cache' = clone(Now, n).cache
         /\ copy' = [node |-> clone(Now, n).ret, model |-> twins(Now, model),
                     batching |-> batching, rendering |-> rendering,
                     ol |-> cache.ol[NoNode],
                     orphans |-> contextless(Now, n, hasCollection)]
         /\ obs' = NoObs
         /\ op' = [name |-> "clone", node |-> n]
         /\ UNCHANGED <<model, loads, batching, rendering, config, deep, seq>>

SelectCopy ==
    \E n \in CopyLive :
        CommitCopy(select(CopyNow, n), OnCopy("select", n), copy.orphans)

DeselectCopy ==
    \E n \in CopyLive :
        CommitCopy(deselect(CopyNow, n, FALSE), OnCopy("deselect", n),
                   copy.orphans)

RemoveCopy ==
    \E n \in Members :
        CommitCopy(remove(CopyNow, n), OnCopy("remove", n), copy.orphans)

\* collection.insertAt(index, object) on a collection without _context, whose
\* owner is the node `owner`: the node is spliced in, and "if (this._context)"
\* skips the parent link and the refresh of the context.
insertOrphan(s, owner, object) ==
    returning(
        applyChanges(markDirty(
            emit([objectToModel(s, object, NoNode)
                     EXCEPT !.children[owner] = Append(@, newNode(s))]),
            newNode(s))),
        newNode(s))

\* node.addChild(child) on a node of the copy, for an object without an id.
addChildOfCopy(s, n, child) ==
    IF n \in copy.orphans
    THEN insertOrphan(s, n, child)
    ELSE addChild(s, n, child)

AddChildCopy ==
    /\ Free(Now) # {}
    /\ \E n \in CopyLive :
         CommitCopy(addChildOfCopy(CopyNow, n, Object(NoId, "A", FALSE, <<>>)),
                    [name |-> "addChild", node |-> n, on |-> "copy",
                     added |-> newNode(Now)],
                    copy.orphans)

CloneConfigs == DomConfigs

InitClone == InitFrom(CloneConfigs, MaxCloneNodes)

NextClone ==
    \/ CloneNode
    \/ Select
    \/ SelectCopy
    \/ DeselectCopy
    \/ RemoveCopy
    \/ AddChildCopy

SpecClone == InitClone /\ [][NextClone]_vars

\* The step is a call on a node of the copy / of the original tree while there
\* is a copy.
CallOnCopy == "on" \in DOMAIN op'

CallOnTree == copy.node # NoNode /\ "on" \notin DOMAIN op'

\* The step leaves the state flags, the dirty flag, the parent link and the
\* children collection of the nodes of S as they were.
Untouched(S) == \A n \in S : itree'[n] = itree[n] /\ children'[n] = children[n]

Results == {"false", "undefined", "0", "true"}

Falsy == {"false", "undefined", "0"}

RECURSIVE recurseUpFalsy(_, _, _)
\* A faulty variant: an ascent that every falsy result ends.
recurseUpFalsy(s, n, iteratee) ==
    IF iteratee[n] \notin Falsy /\ hasParent(s, n)
    THEN <<n>> \o recurseUpFalsy(s, getParent(s, n), iteratee)
    ELSE <<n>>

RECURSIVE recurseUp(_, _, _)
\* node.recurseUp(iteratee): the nodes the iteratee is called with, in the
\* order of the calls; iteratee[n] is what it returns for node n.
recurseUp(s, n, iteratee) ==
    IF iteratee[n] # "false" /\ hasParent(s, n)
    THEN <<n>> \o recurseUp(s, getParent(s, n), iteratee)
    ELSE <<n>>

\* node.recurseUp(iteratee) as the observer records it: the calls of the
\* iteratee.
RecurseUp ==
    \E n \in Live, iteratee \in [Live -> Results] :
        CommitWith(Now, [name |-> "recurseUp", node |-> n,
                         iteratee |-> iteratee,
                         visited |-> recurseUp(Now, n, iteratee)])

NextUp == RecurseUp

SpecUp == InitVis /\ [][NextUp]_vars

\* The visits of a recurseUp go from the node to its parent, one level at a
\* time, and end at a root or at the first node for which the iteratee
\* returned a value of `stops`.
AscentEndedBy(stops) ==
    op.name = "recurseUp" =>
        /\ op.visited[1] = op.node
        /\ \A i \in 1..(Len(op.visited) - 1) :
              /\ op.visited[i + 1] = getParent(Now, op.visited[i])
              /\ op.iteratee[op.visited[i]] \notin stops
        /\ \/ ~hasParent(Now, op.visited[Len(op.visited)])
           \/ op.iteratee[op.visited[Len(op.visited)]] \in stops

\* C31 (as amended): recurseUp(N, visitor) visits N, then its parent, then its
\* grandparent and so on in that order, and the visitor aborts the ascent by
\* returning false: no ancestor above the first node for which the visitor
\* returned false is visited; another falsy value (undefined, 0) does not
\* abort.
C31_RecurseUp == AscentEndedBy({"false"})

\* An ascent went past a node for which the iteratee returned undefined and
\* ended below the root, at a node for which it returned false.
C31_Witness ==
    /\ op.name = "recurseUp"
    /\ Len(op.visited) = 2
    /\ op.iteratee[op.visited[1]] = "undefined"
    /\ op.iteratee[op.visited[2]] = "false"
    /\ hasParent(Now, op.visited[2])

\* C31 as stated: the ascent ends at the first node for which the visitor
\* returned a falsy value.
C31_AsStated == AscentEndedBy(Falsy)

(* ------------------------------- expandDeep ---------------------------- *)
\* The trees of this section are flat, with at most this many nodes, and the
\* loader is called at most MaxDeepLoads times.
MaxDeepNodes == 2

MaxDeepLoads == 2

\* node.children is truthy: the sentinel true, or a collection, which a node
\* has if it has children or if a call of the loader for it has called back.
truthyChildren(s, n) ==
    \/ n \in s.unloaded
    \/ hasChildren(s, n)
    \/ \E i \in 1..Len(s.loads) : s.loads[i].node = n /\ ~s.loads[i].inflight

\* waitCount++
counted(s) == [s EXCEPT !.deep.waitCount = @ + 1]

\* done(): if (--waitCount === 0) resolve(nodes)
done(s) ==
    [s EXCEPT !.deep.waitCount = @ - 1,
              !.deep.resolved = @ \/ s.deep.waitCount - 1 = 0]

\* node.expand().catch(done).then(function() {
\*     node.children.expandDeep().catch(done).then(done) })
\* after the expand() that took s to t: the promise of an expand() that has
\* called the loader is pending; otherwise it is resolved and the callback is
\* queued. The callback throws if node.children is the sentinel, and the
\* expandDeep() of a collection calls done() for its first node, which has no
\* children, and so resolves at once unless the collection is empty.
awaited(s, t, n) ==
    IF Len(t.loads) > Len(s.loads)
    THEN [t EXCEPT !.deep.waits = @ \cup {Len(t.loads)}]
    ELSE IF n \notin t.unloaded /\ hasChildren(t, n)
         THEN [t EXCEPT !.deep.later = @ + 1]
         ELSE t

\* The iteratee of nodes.recurseDown in expandDeep.
visitDeep(s, n) ==
    IF truthyChildren(s, n)
    THEN awaited(s, expand(counted(s), n), n)
    ELSE done(counted(s))

RECURSIVE walkDeep(_, _)
walkDeep(s, q) ==
    IF q = <<>> THEN s ELSE walkDeep(visitDeep(s, Head(q)), Tail(q))

RECURSIVE queued(_)
\* The queued callbacks run, after the call that queued them has returned.
queued(s) ==
    IF s.deep.later = 0
    THEN s
    ELSE queued(done([s EXCEPT !.deep.later = @ - 1]))

\* tree.model.expandDeep()
expandDeep(s) ==
    queued(walkDeep([s EXCEPT !.deep.called = TRUE], recurseDown(s, s.model)))

\* The callbacks of expandDeep after complete(results) of the i-th call of the
\* loader: the expand() is resolved, and the expandDeep() of the new children
\* resolves unless there are none.
completed(s, i, results) ==
    IF i \in s.deep.waits
    THEN IF results # <<>>
         THEN done([s EXCEPT !.deep.waits = @ \ {i}])
         ELSE [s EXCEPT !.deep.waits = @ \ {i}]
    ELSE s

\* The callbacks of expandDeep after error(err) of the i-th call of the
\* loader: catch(done) calls done(), and the expandDeep() of the empty
\* collection never resolves.
failed(s, i) ==
    IF i \in s.deep.waits
    THEN done([s EXCEPT !.deep.waits = @ \ {i}])
    ELSE s

ExpandDeep ==
    /\ ~deep.called
    /\ Len(expandDeep(Now).loads) <= MaxDeepLoads
    /\ Commit(expandDeep(Now), "expandDeep", NoNode)

CompleteDeep ==
    \E i \in InFlight, results \in KidLists({NoId}, {"A"}) :
        /\ Cardinality(Nodes \ Free(Now)) + Len(results) <= MaxNodes
        /\ CommitWith(completed(complete(Now, i, results), i, results),
                      [name |-> "complete", node |-> loads[i].node,
                       load |-> i, results |-> results])

FailDeep ==
    \E i \in InFlight :
        CommitWith(failed(error(Now, i), i),
                   [name |-> "error", node |-> loads[i].node, load |-> i])

\* A flat dynamic tree, some of whose nodes have the sentinel for children.
InitDeep ==
    /\ config \in LoadConfigs
    /\ \E k \in 0..MaxDeepNodes, U \in SUBSET (1..MaxDeepNodes) :
         /\ U \subseteq 1..k
         /\ InitTreeWith([n \in Nodes |-> NoNode], k, U)

NextDeep ==
    \/ ExpandDeep
    \/ ExpandNodeUpTo(MaxDeepLoads)
    \/ CompleteDeep
    \/ FailDeep

SpecDeep == InitDeep /\ [][NextDeep]_vars

\* C32: the result of expandDeep resolves only when every node of the
\* hierarchy has finished loading and expanding: while a call of the loader
\* that the expandDeep waits for has not called back, the result is not
\* resolved.
C32_ResolvesWhenLoaded ==
    deep.resolved => /\ deep.waits = {}
                     /\ \A n \in Live : ~loading(Now, n)

(* ----------------------------- state queries -------------------------- *)
\* The states a collection can be queried for.
States == (Flags \ {"loading"}) \cup {"visible", "available"}

\* tree.getPredicateFunction(name): node[name]() of a node.
getPredicateFunction(s, name, n) ==
    IF name = "visible"
    THEN visible(s, n)
    ELSE IF name = "available" THEN available(s, n) ELSE s.itree[n].state[name]

\* tree.flatten(name): the nodes of the tree of which the predicate holds.
flatten(s, name) == {n \in InTree(s) : getPredicateFunction(s, name, n)}

RECURSIVE getParents(_, _)
\* node.getParents()
getParents(s, n) ==
    IF hasParent(s, n)
    THEN {getParent(s, n)} \cup getParents(s, getParent(s, n))
    ELSE {}

\* node.copyHierarchy(): the nodes whose copies make the hierarchy, which are
\* the parents of the node, the node, and its children that are not hidden
\* with all that is below them.
copyHierarchy(s, n) ==
    getParents(s, n) \cup {n}
      \cup Range(recurseDown(s, SelectSeq(s.children[n],
                                          LAMBDA c : ~hidden(s, c))))

\* tree.extract(name): the nodes that have a copy in the collection returned.
extract(s, name) == UNION {copyHierarchy(s, n) : n \in flatten(s, name)}

\* baseStatePredicate(name, full): the nodes the query returns, or a copy of.
stateQuery(s, name, full) ==
    IF full
    THEN extract(s, name)
    ELSE baseStatePredicate(s, LAMBDA t, n : getPredicateFunction(t, name, n))

\* C33: a state query on a collection never includes a soft-removed node
\* unless the queried state is 'removed', in the flat form and in the
\* full-hierarchy form.
C33_NoRemoved ==
    \A name \in States \ {"removed"}, full \in BOOLEAN :
        \A n \in stateQuery(Now, name, full) : ~removed(Now, n)

(* ------------------------- unsupported loadChildren -------------------- *)
\* C34: loadChildren on a node that does not support dynamic loading (its
\* children are not the unloaded sentinel) is rejected without side effects:
\* the loader is not invoked, the loading flag is not set, and the children
\* collection of the node is not replaced.
C34_RejectedWithoutEffect ==
    [][op'.name = "loadChildren" /\ ~isUnloaded(Now, op'.node) =>
          /\ Len(loads') = Len(loads)
          /\ ~itree'[op'.node].state["loading"]
          /\ children'[op'.node] = children[op'.node]]_vars

(* ----------------------- dirty before the render ----------------------- *)
\* C35: a mutation marks the nodes it affects dirty, bottom-up, before the
\* render it triggers: when remove() of a nested node N calls applyChanges(),
\* the former parent of N and all the ancestors of that parent are dirty.
C35_DirtyBeforeRender ==
    [][op'.name = "remove" /\ hasParent(Now, op'.node) =>
          \A a \in AncestorsOf(op'.node) :
              removing(Now, op'.node).itree[a].dirty]_vars

(* -------------------------- the dirty set is closed -------------------- *)
\* C36: the dirty set is upward-closed in every reachable state, between
\* operations and after every render pass: whenever a node is dirty, its
\* parent and every further ancestor is dirty too.
C36_UpwardClosed ==
    \A n \in Live : itree[n].dirty => \A a \in AncestorsOf(n) : itree[a].dirty

(* ---------------------- selected and indeterminate --------------------- *)
\* C37: in checkbox mode with auto-select-children, after any sequence of
\* select and deselect calls no node is both selected and indeterminate.
C37_NotBoth ==
    config.showCheckboxes /\ config.autoSelectChildren =>
        \A n \in Live : ~(selected(Now, n) /\ indeterminate(Now, n))

(* --------------------------- require at least one ---------------------- *)
\* C38: with the require-at-least-one policy active, no deselect call takes
\* the tree from a state with a selected node to a state with none, the
\* cascade of deselect to descendants and to the parent included.
C38_RequireOne ==
    [][/\ op'.name = "deselect" /\ config.require
       /\ \E n \in Live : selected(Now, n)
       => \E n \in Live : itree'[n].state["selected"]]_vars

(* --------------------------- visible neighbours ------------------------- *)
\* The outcome of a call that throws a TypeError instead of returning.
TypeError == -1

\* The collection a node lives in: its parent's children, or the root nodes.
context(s, n) == IF hasParent(s, n) THEN s.children[getParent(s, n)] ELSE s.model

\* _.findIndex(context, { id: node.id }), as a position of the sequence.
findIndex(s, q, n) == CHOOSE i \in 1..Len(q) : s.id[q[i]] = s.id[n]

\* _.find(q, visible): the first visible node of q, if any.
findVisible(s, q) ==
    IF \E i \in 1..Len(q) : visible(s, q[i])
    THEN q[CHOOSE i \in 1..Len(q) :
               visible(s, q[i]) /\ \A j \in 1..(i - 1) : ~visible(s, q[j])]
    ELSE NoNode

\* _.findLast(q, visible): the last visible node of q, if any.
findLastVisible(s, q) ==
    IF \E i \in 1..Len(q) : visible(s, q[i])
    THEN q[CHOOSE i \in 1..Len(q) :
               visible(s, q[i]) /\ \A j \in (i + 1)..Len(q) : ~visible(s, q[j])]
    ELSE NoNode

\* node.lastDeepestVisibleChild(): the method is called on the child found,
\* whether or not one was found.
RECURSIVE lastDeepestVisibleChild(_, _)
lastDeepestVisibleChild(s, n) ==
    IF hasChildren(s, n) /\ ~collapsed(s, n)
    THEN IF findLastVisible(s, s.children[n]) = NoNode
         THEN TypeError
         ELSE IF lastDeepestVisibleChild(s, findLastVisible(s, s.children[n])) # NoNode
              THEN lastDeepestVisibleChild(s, findLastVisible(s, s.children[n]))
              ELSE findLastVisible(s, s.children[n])
    ELSE NoNode

\* node.nextVisibleSiblingNode()
nextVisibleSiblingNode(s, n) ==
    findVisible(s, SubSeq(context(s, n), findIndex(s, context(s, n), n) + 1,
                          Len(context(s, n))))

\* node.previousVisibleSiblingNode()
previousVisibleSiblingNode(s, n) ==
    findLastVisible(s, SubSeq(context(s, n), 1, findIndex(s, context(s, n), n) - 1))

\* node.nextVisibleAncestralSiblingNode()
RECURSIVE nextVisibleAncestralSiblingNode(_, _)
nextVisibleAncestralSiblingNode(s, n) ==
    IF hasParent(s, n)
    THEN IF nextVisibleSiblingNode(s, getParent(s, n)) # NoNode
         THEN nextVisibleSiblingNode(s, getParent(s, n))
         ELSE nextVisibleAncestralSiblingNode(s, getParent(s, n))
    ELSE NoNode

\* node.nextVisibleChildNode()
nextVisibleChildNode(s, n) ==
    IF hasChildren(s, n) THEN findVisible(s, s.children[n]) ELSE NoNode

\* node.nextVisibleNode()
nextVisibleNode(s, n) ==
    IF nextVisibleChildNode(s, n) # NoNode
    THEN nextVisibleChildNode(s, n)
    ELSE IF nextVisibleSiblingNode(s, n) # NoNode
         THEN nextVisibleSiblingNode(s, n)
         ELSE nextVisibleAncestralSiblingNode(s, n)

\* The previous visible sibling, replaced by its last deepest visible child
\* when it has children and is not collapsed.
previousDeepest(s, prev) ==
    IF prev # NoNode /\ hasChildren(s, prev) /\ ~collapsed(s, prev)
    THEN lastDeepestVisibleChild(s, prev)
    ELSE prev

\* node.previousVisibleNode()
previousVisibleNode(s, n) ==
    IF previousDeepest(s, previousVisibleSiblingNode(s, n)) = NoNode /\ hasParent(s, n)
    THEN getParent(s, n)
    ELSE previousDeepest(s, previousVisibleSiblingNode(s, n))

\* Trees of any shape whose nodes are hidden, collapsed and soft-removed.
InitNav == InitFrom(VisConfigs, MaxTreeNodes)

NextNav ==
    \/ Hide
    \/ Collapse
    \/ SoftRemove

SpecNav == InitNav /\ [][NextNav]_vars

\* A result of a navigation call: no node, or a visible node.
VisibleOrNone(r) == r = NoNode \/ (r \in Live /\ visible(Now, r))

\* C39: for every visible node, nextVisibleNode and previousVisibleNode each
\* return a visible node or no node, and never fail, also when a preceding
\* expanded sibling has children that are all hidden or soft-removed.
C39_VisibleNeighbours ==
    \A n \in Live :
        visible(Now, n) =>
            /\ VisibleOrNone(nextVisibleNode(Now, n))
            /\ VisibleOrNone(previousVisibleNode(Now, n))

(* --------------------------------- focus -------------------------------- *)
focused(s, n) == s.itree[n].state["focused"]
editing(s, n) == s.itree[n].state["editing"]

\* node.blur()
blur(s, n) == baseStateChange(s, "focused", FALSE, n)

RECURSIVE blurEach(_, _)
\* invokeDeep('blur'): blur() of each node of a walk, in its order.
blurEach(s, nodes) ==
    IF nodes = <<>> THEN s ELSE blurEach(blur(s, Head(nodes)), Tail(nodes))

\* tree.blurDeep()
blurDeep(s) == blurEach(s, recurseDown(s, s.model))

\* node.focus()
focus(s, n) ==
    IF ~focused(s, n)
    THEN end(markDirty(emit(state(blurDeep(batch(s)), n, "focused", TRUE)), n))
    ELSE s

\* blankNode(): the raw object of a new node, which is editing and focused.
blankNode ==
    [id |-> NoId, text |-> "New Node", selected |-> FALSE, kids |-> <<>>,
     focused |-> TRUE, editing |-> TRUE]

\* onclick of the button 'Add a child node' of node n.
addChildButton(s, n) == expand(addChild(s, n, blankNode), n)

\* onclick of the button 'Add a new root node': the handler is a function
\* expression, so `this` is the element clicked and this._tree is undefined;
\* the handler throws before it has blurred or added anything.
addRootButton(s) == s

\* The most nodes a tree grows to by its add buttons.
MaxFocusNodes == 3

Focus == \E n \in Live : Commit(focus(Now, n), "focus", n)

Blur == \E n \in Live : Commit(blur(Now, n), "blur", n)

\* The button is rendered for a node that is not editing (config.editing.add).
AddChildButton ==
    /\ Cardinality(Live) < MaxFocusNodes
    /\ \E n \in Live :
         /\ ~editing(Now, n)
         /\ Commit(addChildButton(Now, n), "addChildButton", n)

AddRootButton == Commit(addRootButton(Now), "addRootButton", NoNode)

InitFocus == InitFrom(VisConfigs, MaxDomNodes)

NextFocus ==
    \/ Focus
    \/ Blur
    \/ AddChildButton
    \/ AddRootButton

SpecFocus == InitFocus /\ [][NextFocus]_vars

\* C40: at most one node of the tree is focused in every reachable state, under
\* any sequence of focus(), blur() and clicks on the add buttons.
C40_OneFocused == Cardinality({n \in Live : focused(Now, n)}) <= 1

====
